---- MODULE Spec2Model ----
(***************************************************************************)
(* Workspace core of salto: the incremental merged-element cache of the    *)
(* workspace (workspace.ts, elements_cache.ts) and the pending-edit queue  *)
(* of the editor workspace (editor workspace.ts).                          *)
(*                                                                         *)
(* An element is a record [elemID, fields, type]; a NaCl buffer is the set *)
(* of blocks it holds.  Full names are sequences of name parts.            *)
(***************************************************************************)
EXTENDS Integers, Sequences, FiniteSets, TLC

\* ------------------------------------------------------------------------
\* Bounds of the model
\* ------------------------------------------------------------------------
\* number of API calls made on one editor workspace
MaxCalls == 2
\* number of concurrent callers of runOperationWithWorkspace besides the drain
MaxUserOps == 2

\* ------------------------------------------------------------------------
\* Values
\* ------------------------------------------------------------------------
\* `undefined`, and the buffer of a file that does not exist
Undefined == [undefined |-> TRUE]
NoFile == {[name |-> "<no file>", fields |-> {}]}
NoEnv == ""

\* top-level names: an object type and an instance of that type
TypeName == "T"
InstName == "I"
NameSeq == <<TypeName, InstName>>
Names == {NameSeq[i] : i \in 1..Len(NameSeq)}
FieldSeq == <<"a", "h">>
Fields == {FieldSeq[i] : i \in 1..Len(FieldSeq)}

CommonSourceName == "common"
Envs == {"env1", "env2"}
\* a file name determines the source (common or an environment) it is in
CommonFile == "a.nacl"
Env1File == "envs/env1/b.nacl"
FileNames == {CommonFile, Env1File}
SourceOfFile(f) == IF f = CommonFile THEN CommonSourceName ELSE "env1"

\* ElemID: top-level name plus the nested path beneath it
TopID(n) == [top |-> n, path |-> <<>>]
FieldID(n, f) == [top |-> n, path |-> <<"field", f>>]
getFullName(id) == <<id.top>> \o id.path
createTopLevelParentID(id) == [parent |-> TopID(id.top), path |-> id.path]

\* a block of a NaCl buffer: `type T { fields }` or `T I { values }`
Block(n, F) == [name |-> n, fields |-> F]
TypeBodies == {{"a"}, {"h"}}
InstBodies == {{"a"}}
Buffers ==
  { tb \cup ib :
      tb \in {{}} \cup {{Block(TypeName, F)} : F \in TypeBodies},
      ib \in {{}} \cup {{Block(InstName, F)} : F \in InstBodies} }

\* the type an instance block names; the parser leaves an unresolved
\* placeholder (no fields) that the merger rewrites
NoType == [name |-> "none", fields |-> {}]
PlaceholderType == [name |-> TypeName, fields |-> {}]
isType(e) == e.type = NoType

\* parse: blocks of a buffer lowered into top-level element fragments
parse(buffer) ==
  { [elemID |-> TopID(b.name), fields |-> b.fields,
     type |-> IF b.name = InstName THEN PlaceholderType ELSE NoType] : b \in buffer }

\* ------------------------------------------------------------------------
\* Sequences from sets, in the fixed order of NameSeq / FieldSeq
\* ------------------------------------------------------------------------
RECURSIVE SeqFilter(_, _)
SeqFilter(s, S) ==
  IF s = <<>> THEN <<>>
  ELSE (IF Head(s) \in S THEN <<Head(s)>> ELSE <<>>) \o SeqFilter(Tail(s), S)

Range(s) == {s[i] : i \in 1..Len(s)}

RECURSIVE Flatten(_)
Flatten(ss) == IF ss = <<>> THEN <<>> ELSE Head(ss) \o Flatten(Tail(ss))

\* keyed by the type name of the ElemID instead of the full name
keyByTypeName(list) ==
  LET key(e) == IF isType(e) THEN <<e.elemID.top>> ELSE <<e.type.name>>
  IN [k \in {key(list[i]) : i \in 1..Len(list)} |->
        LET idx == {i \in 1..Len(list) : key(list[i]) = k}
        IN list[CHOOSE i \in idx : \A j \in idx : j <= i]]

\* _.keyBy(list, e => e.elemID.getFullName()): the last element of a key wins
keyByFullName(list) ==
  [k \in {getFullName(list[i].elemID) : i \in 1..Len(list)} |->
     LET idx == {i \in 1..Len(list) : getFullName(list[i].elemID) = k}
     IN list[CHOOSE i \in idx : \A j \in idx : j <= i]]

\* Object.values(record), in the order of NameSeq
objectValues(rec) ==
  LET present == SeqFilter(NameSeq, {n \in Names : <<n>> \in DOMAIN rec})
  IN [i \in 1..Len(present) |-> rec[<<present[i]>>]]

\* ------------------------------------------------------------------------
\* Changes (adapter-api toChange / getChangeElement)
\* ------------------------------------------------------------------------
toChange(before, after) ==
  [action |-> IF before = Undefined THEN "add"
              ELSE IF after = Undefined THEN "remove" ELSE "modify",
   data |-> [before |-> before, after |-> after]]
getChangeElement(c) == IF c.action = "remove" THEN c.data.before ELSE c.data.after
isAdditionOrModificationChange(c) == c.action \in {"add", "modify"}
isRemovalChange(c) == c.action = "remove"
isEqualElements(a, b) == a = b

lookup(rec, k) == IF k \in DOMAIN rec THEN rec[k] ELSE Undefined

\* ------------------------------------------------------------------------
\* Merger (section 4.2): fragments of one full name fold into one element
\* ------------------------------------------------------------------------
\* every type-valued field points at the merged type when there is one
updateMergedTypes(elements, mergedTypes) ==
  [i \in 1..Len(elements) |->
     LET e == elements[i] IN
     IF isType(e) \/ <<e.type.name>> \notin DOMAIN mergedTypes THEN e
     ELSE [e EXCEPT !.type = [name |-> e.type.name,
                              fields |-> mergedTypes[<<e.type.name>>].fields]]]

typesByName(elements) ==
  keyByFullName(SelectSeq(elements, LAMBDA e : isType(e)))

fragmentsOf(list, n) == {i \in 1..Len(list) : list[i].elemID = TopID(n)}

mergeFragments(list, n) ==
  LET idx == fragmentsOf(list, n)
      first == CHOOSE i \in idx : \A j \in idx : i <= j
  IN [elemID |-> TopID(n),
      fields |-> UNION {list[i].fields : i \in idx},
      type |-> list[first].type]

\* a field that two fragments of one element define is a duplicate
duplicateFields(list, n) ==
  {f \in Fields : Cardinality({i \in fragmentsOf(list, n) : f \in list[i].fields}) >= 2}

mergeErrorsOf(list, n) ==
  LET dups == SeqFilter(FieldSeq, duplicateFields(list, n))
  IN [i \in 1..Len(dups) |->
        [elemID |-> FieldID(n, dups[i]),
         kind |-> IF n = TypeName THEN "DuplicateAnnotation" ELSE "DuplicateInstanceKey"]]

\* mergeElements(elements, context): context holds the merged elements the
\* new ones may name as their type
mergeElementsIn(list, context) ==
  LET present == SeqFilter(NameSeq, {n \in Names : fragmentsOf(list, n) # {}})
      raw == [i \in 1..Len(present) |-> mergeFragments(list, present[i])]
      rawTypes == typesByName(raw)
      types == [k \in DOMAIN rawTypes \cup {c \in DOMAIN context : isType(context[c])} |->
                  IF k \in DOMAIN rawTypes THEN rawTypes[k] ELSE context[k]]
  IN [merged |-> updateMergedTypes(raw, types),
      errors |-> Flatten([i \in 1..Len(present) |-> mergeErrorsOf(list, present[i])])]

mergeElements(list) == mergeElementsIn(list, <<>>)

\* ------------------------------------------------------------------------
\* Hidden overlay (section 4.5)
\* ------------------------------------------------------------------------
\* what a state element contributes: the whole element when it is hidden,
\* its hidden parts when the workspace has the element, nothing otherwise
hiddenPartsOf(workspaceElements, stateElements) ==
  LET inWorkspace(s) == \E i \in 1..Len(workspaceElements) :
                          workspaceElements[i].elemID = s.elemID
      contributes(s) == s.hidden \/ inWorkspace(s)
      part(s) == [elemID |-> s.elemID,
                  fields |-> IF s.hidden THEN s.fields ELSE s.hiddenFields,
                  type |-> s.type]
      kept == SelectSeq(stateElements, contributes)
  IN [i \in 1..Len(kept) |-> part(kept[i])]

mergeWithHidden(workspaceElements, stateElements) ==
  mergeElements(workspaceElements \o hiddenPartsOf(workspaceElements, stateElements))

\* ------------------------------------------------------------------------
\* elements_cache.ts
\* ------------------------------------------------------------------------
\* calcChanges without the test of isEqualElements (line 32)
calcChangesOfEqual(fullNames, currentElements, newElements) ==
  LET changeOf(fullName) ==
        LET before == lookup(currentElements, fullName)
            after == lookup(newElements, fullName)
        IN IF before = Undefined /\ after = Undefined THEN Undefined
           ELSE toChange(before, after)
      all == [i \in 1..Len(fullNames) |-> changeOf(fullNames[i])]
  IN SelectSeq(all, LAMBDA c : c # Undefined)

calcChanges(fullNames, currentElements, newElements) ==
  LET changeOf(fullName) ==
        LET before == lookup(currentElements, fullName)
            after == lookup(newElements, fullName)
        IN IF before = Undefined /\ after = Undefined THEN Undefined
           ELSE IF isEqualElements(before, after) THEN Undefined
           ELSE toChange(before, after)
      all == [i \in 1..Len(fullNames) |-> changeOf(fullNames[i])]
  IN SelectSeq(all, LAMBDA c : c # Undefined)

\* the elements that changed are appended, the old ones are not filtered out
calcNewMergedKeepsOld(currentMerged, newMerged, relevantElementIDs) ==
  currentMerged \o newMerged

\* the current list is dropped whole, whatever the relevant IDs are
calcNewMergedOnly(currentMerged, newMerged, relevantElementIDs) ==
  newMerged

calcNewMerged(currentMerged, newMerged, relevantElementIDs) ==
  SelectSeq(currentMerged,
            LAMBDA e : getFullName(createTopLevelParentID(e.elemID).parent)
                         \notin relevantElementIDs)
    \o newMerged

omit(rec, keys) == [k \in DOMAIN rec \ keys |-> rec[k]]

\* { ...a, ...b }
spread(a, b) == [k \in DOMAIN a \cup DOMAIN b |-> IF k \in DOMAIN b THEN b[k] ELSE a[k]]

buildNewMergedElementsAndErrors(newElements, currentElements, currentMergeErrors, relevantElementIDs) ==
  LET currentMergedElementsWithoutRelevants ==
        omit(currentElements, Range(relevantElementIDs))
      newMergedElementsResult ==
        mergeElementsIn(newElements, currentMergedElementsWithoutRelevants)
      mergeErrors == calcNewMerged(currentMergeErrors, newMergedElementsResult.errors,
                                   Range(relevantElementIDs))
      mergedElements == spread(currentMergedElementsWithoutRelevants,
                               keyByFullName(newMergedElementsResult.merged))
  IN [mergeErrors |-> mergeErrors,
      mergedElements |-> mergedElements,
      changes |-> calcChanges(relevantElementIDs, currentElements, mergedElements)]

\* ------------------------------------------------------------------------
\* State store: elements fetched for an environment (fixed while editing)
\* ------------------------------------------------------------------------
StateElem(n, F, hid, HF) ==
  [elemID |-> TopID(n), fields |-> F, type |-> NoType, hidden |-> hid, hiddenFields |-> HF]
StateChoices ==
  { {},
    {StateElem(TypeName, {"h"}, TRUE, {})},
    {StateElem(TypeName, {"a", "h"}, FALSE, {"h"})},
    {StateElem(TypeName, {"a", "h"}, FALSE, {"a", "h"})} }

stateGetAll(store) ==
  LET present == SeqFilter(NameSeq, {s.elemID.top : s \in store})
  IN [i \in 1..Len(present) |-> CHOOSE s \in store : s.elemID = TopID(present[i])]

stateGet(store, id) == SelectSeq(stateGetAll(store), LAMBDA s : s.elemID = id)

\* ------------------------------------------------------------------------
\* NaCl files source of the current environment (sections 4.4, 4.5)
\* ------------------------------------------------------------------------
FileSeq == <<CommonFile, Env1File>>

\* the files of common and of env, the effective file set of env
effectiveFiles(fs, env) ==
  SeqFilter(FileSeq, {f \in FileNames :
     fs[f] # NoFile /\ SourceOfFile(f) \in {CommonSourceName, env}})

fragmentsOfFile(fs, f) ==
  LET frs == parse(fs[f])
      present == SeqFilter(NameSeq, {fr.elemID.top : fr \in frs})
  IN [i \in 1..Len(present) |-> CHOOSE fr \in frs : fr.elemID = TopID(present[i])]

allFragments(fs, env) ==
  LET efs == effectiveFiles(fs, env)
  IN Flatten([i \in 1..Len(efs) |-> fragmentsOfFile(fs, efs[i])])

\* naclFilesSource.getAll(env): the fragments of all effective files, merged
sourceGetAll(fs, env) == mergeElements(allFragments(fs, env)).merged

namesIn(buffer) == IF buffer = NoFile THEN {} ELSE {b.name : b \in buffer}

\* the element changes a source reports for the files it rewrote: the old and
\* the new parse of these files name the relevant elements, which are merged
\* again from all their fragments
sourceUpdate(before, after, touched, env) ==
  LET relevant == SeqFilter(NameSeq,
                    UNION {namesIn(before[f]) \cup namesIn(after[f]) : f \in touched})
      relevantElementIDs == [i \in 1..Len(relevant) |-> <<relevant[i]>>]
      newElements == SelectSeq(allFragments(after, env),
                               LAMBDA fr : fr.elemID.top \in Range(relevant))
  IN buildNewMergedElementsAndErrors(newElements,
        keyByFullName(sourceGetAll(before, env)), <<>>, relevantElementIDs)

sourceSetNaclFiles(fs, naclFiles) ==
  [f \in FileNames |-> IF f \in DOMAIN naclFiles THEN naclFiles[f] ELSE fs[f]]

sourceRemoveNaclFiles(fs, names) ==
  [f \in FileNames |-> IF f \in names THEN NoFile ELSE fs[f]]

\* ------------------------------------------------------------------------
\* workspace.ts: the cached merged state
\* ------------------------------------------------------------------------
VARIABLES
  files,           \* NaCl buffers of the sources, by file name
  currentEnv,      \* workspaceConfig.currentEnv
  stateStore,      \* state(env): the elements fetched for each environment
  workspaceState,  \* the cached { elements, mergeErrors } or undefined
  lastOp           \* the last workspace call: kind, files named, returned changes,
                   \* and the merged map the source computed for it

wsVars == <<files, currentEnv, stateStore, workspaceState, lastOp>>

\* ------------------------------------------------------------------------
\* workspace.ts: the configuration, the credentials and the environment
\* sources loadWorkspace closes over
\* ------------------------------------------------------------------------
VARIABLES
  workspaceConfig,  \* envs (name, services) and staleStateThresholdMinutes
  persistedConfig,  \* what config.setWorkspaceConfig wrote last
  credentials,      \* the environments that have stored credentials
  sources,          \* elementsSources.sources: environment name -> its source
  naclFilesSource,  \* the primary source of the multi environment source in use
  outcome,          \* how the last call ended, and whether it persisted the config
  envCalls          \* calls made so far that changed the configured environments

lcVars == <<workspaceConfig, persistedConfig, credentials, sources, naclFilesSource,
            outcome, envCalls>>

\* the calls that change the configured environments or their services
MaxEnvCalls == 1

\* names an environment may be given; the sources loaded are those of Envs
EnvNames == Envs \cup {"env3"}
Services == {"salesforce"}
\* elementsSources.sources[env] is undefined
NoSource == "<no source>"

EnvConfig(name, svcs) == [name |-> name, services |-> svcs]

\* the config as setWorkspaceConfig serialises it
configOf(wc, cur) ==
  [envs |-> wc.envs, currentEnv |-> cur,
   staleStateThresholdMinutes |-> wc.staleStateThresholdMinutes]

Outcome(call, error, persisted) ==
  [call |-> call, error |-> error, persisted |-> persisted]

hasSource(env) == env \in DOMAIN sources /\ sources[env] # NoSource

\* state(): the state store of the current environment, seen under the
\* primary source of naclFilesSource
stateView ==
  [e \in Envs |-> IF e = naclFilesSource /\ hasSource(currentEnv)
                  THEN stateStore[sources[currentEnv]]
                  ELSE stateStore[e]]

\* an optional number is the empty set or the set of the number
NotConfigured == {}
NoDate == {}

\* loadWorkspace with the config, the credentials and the sources of Envs
LifecycleLoaded ==
  /\ workspaceConfig = [envs |-> <<EnvConfig("env1", <<>>), EnvConfig("env2", <<>>)>>,
                        staleStateThresholdMinutes |-> NotConfigured]
  /\ persistedConfig = configOf(workspaceConfig, "env1")
  /\ credentials = Envs
  /\ sources = [e \in Envs |-> e]
  /\ naclFilesSource = "env1"
  /\ outcome = Outcome("load", "none", FALSE)
  /\ envCalls = 0

\* ------------------------------------------------------------------------
\* editor workspace.ts: the fields of one EditorWorkspace, and the record of
\* what its callers were told
\* ------------------------------------------------------------------------
VARIABLES
  pendingSets,                \* filename -> buffer waiting to be set
  pendingDeletes,             \* filenames waiting to be removed
  runningSetOperation,        \* undefined or the promise of the drain
  runningWorkspaceOperation,  \* undefined or the promise of waitForOperation
  wsErrors,                   \* undefined or the cached error set
  ops,                        \* the calls of runOperationWithWorkspace not over yet
  calls,                      \* setNaclFiles / removeNaclFiles calls made so far
  expected,                   \* the files after applying the calls one at a time
  queued,                     \* edits enqueued and not taken by a drain yet
  taken,                      \* edits taken by the drain and not applied yet
  lastWritten,                \* filename -> buffer of the last call setting it
  resolution,                 \* what held when the last step resolved a promise
  applied,                    \* the workspace call the last step completed
  batch,                      \* what was seen before and during the running batch
  tornReads                   \* reads of the batch just over that saw neither end

edVars == <<pendingSets, pendingDeletes, runningSetOperation,
            runningWorkspaceOperation, wsErrors, ops>>
histVars == <<calls, expected, queued, taken, lastWritten, resolution,
              applied, batch, tornReads>>

\* ------------------------------------------------------------------------
\* the clock, and the update dates the state stores keep for the services
\* ------------------------------------------------------------------------
VARIABLES
  updateDates,  \* state(env).getServicesUpdateDates(), by source
  now,          \* Date.now(), in milliseconds
  recency       \* what getStateRecency returned last, and when

rcVars == <<updateDates, now, recency>>

\* ------------------------------------------------------------------------
\* the workspace returned by clone()
\* ------------------------------------------------------------------------
VARIABLES
  clone,       \* undefined, or the sources the clone uses and its cached state
  cloneFiles,  \* the NaCl buffers of the copies made by naclFiles.clone()
  lastOn,      \* the workspace the last call was made on
  cloneCalls   \* calls made on either workspace, counted up to MaxCloneCalls

clVars == <<clone, cloneFiles, lastOn, cloneCalls>>

MaxCloneCalls == 2

\* ------------------------------------------------------------------------
\* the removal of a file that defines a referenced element, and its return
\* ------------------------------------------------------------------------
VARIABLES
  removal  \* undefined, or the file removed, its buffer, the validation errors
           \* cached before, those expected after, and how far the scenario is

valVars == <<removal>>

\* ------------------------------------------------------------------------
\* the debounced listener that reports the errors to the editor
\* ------------------------------------------------------------------------
VARIABLES
  debounce,        \* whether the timer is set, and the time of the last call
  reports,         \* the invocations of the debounced callback not over yet
  diagCollection,  \* the diagnostics set last, when, and how often they were set
  listenerCalls    \* the calls of the listener: how many, and whether each came
                   \* less than the idle period after the one before

dgVars == <<debounce, reports, diagCollection, listenerCalls>>

\* ------------------------------------------------------------------------
\* the module state of the parser's converters, and the last conversion
\* ------------------------------------------------------------------------
VARIABLES
  currentFilename,  \* `let currentFilename: string`
  allowWildcard,    \* `let allowWildcard = false`
  session,          \* whether startParse was called, and whether
                    \* setErrorRecoveryMode was called since the last startParse
  converted         \* the last converter call: its arguments and what it
                    \* returned or threw

psVars == <<currentFilename, allowWildcard, session, converted>>

\* ------------------------------------------------------------------------
\* the last call of the transform walker
\* ------------------------------------------------------------------------
VARIABLES
  walked  \* the arguments of transformValues, what it returned, and the calls
          \* of the callback it made

tfVars == <<walked>>

\* ------------------------------------------------------------------------
\* cli workspace.ts: the call of loadWorkspace or updateWorkspace in progress
\* ------------------------------------------------------------------------
VARIABLES
  command,      \* the call and its arguments, undefined between two calls
  cliPc,        \* "idle", the prompt the call awaits an answer to, or "returned"
  wsErrorList,  \* the severities of (await ws.errors()).all()
  prompts,      \* the prompts shown during the call, each with its answer
  wsCalls,      \* how often the call invoked ws.updateNaclFiles and ws.flush
  returned,     \* what the call returned
  commands      \* the number of calls made

cliVars == <<command, cliPc, wsErrorList, prompts, wsCalls, returned, commands>>

vars == <<wsVars, edVars, histVars, lcVars, rcVars, clVars, valVars, dgVars,
          psVars, tfVars, cliVars>>

\* what the calls of the workspace, of its environments and of the editor
\* workspace leave alone
notWs == <<edVars, histVars, lcVars, rcVars, clVars, valVars, dgVars, psVars, tfVars,
  cliVars>>
notEnv == <<edVars, histVars, rcVars, clVars, valVars, dgVars, psVars, tfVars,
  cliVars>>
notEd == <<lcVars, rcVars, clVars, valVars, dgVars, psVars, tfVars,
  cliVars>>

\* clone() is not called
NotCloned ==
  /\ clone = Undefined
  /\ cloneFiles = [f \in FileNames |-> NoFile]
  /\ lastOn = "original"
  /\ cloneCalls = 0

\* no file that defines a referenced element was removed
NothingRemoved == removal = Undefined

\* the listener is created and was not called; nothing was published
ListenerCreated ==
  /\ debounce = [pending |-> FALSE, lastCallTime |-> 0]
  /\ reports = <<>>
  /\ diagCollection = [sets |-> 0]
  /\ listenerCalls = [count |-> 0, withinIdle |-> TRUE]

\* the parser module is loaded and no converter was called: lines 165-166
ConvertersLoaded ==
  /\ currentFilename = Undefined
  /\ allowWildcard = FALSE
  /\ session = [started |-> FALSE, recovery |-> FALSE]
  /\ converted = Undefined

\* transformValues was not called
NothingWalked == walked = Undefined

\* no command of the CLI runs
NoCommandRun ==
  /\ command = Undefined
  /\ cliPc = "idle"
  /\ wsErrorList = <<>>
  /\ prompts = <<>>
  /\ wsCalls = [updateNaclFiles |-> 0, flush |-> 0]
  /\ returned = Undefined
  /\ commands = 0

\* no state was fetched and getStateRecency is not called
RecencyUnused ==
  /\ updateDates = [e \in Envs |-> [s \in Services |-> NoDate]]
  /\ now = 0
  /\ recency = Undefined

\* a promise is pending or resolved
PromisePending == [promise |-> "pending"]
PromiseResolved == [promise |-> "resolved"]
NoResolution == [by |-> "none"]
\* the values read from the elements getter and from errors()
NoReads == [elements |-> {}, errors |-> {}]
\* a map without keys
EmptyMap == <<>>

\* the fields after `new EditorWorkspace(baseDir, workspace)`: lines 33-41
EditorConstructed ==
  /\ pendingSets = EmptyMap
  /\ pendingDeletes = {}
  /\ runningSetOperation = Undefined
  /\ runningWorkspaceOperation = Undefined
  /\ wsErrors = Undefined
  /\ ops = <<>>
  /\ calls = 0
  /\ queued = {}
  /\ taken = {}
  /\ lastWritten = EmptyMap
  /\ resolution = NoResolution
  /\ applied = Undefined
  /\ batch = Undefined
  /\ tornReads = NoReads

fullBuild(fs, st, env) ==
  LET visibleElements == sourceGetAll(fs, env)
      stateElements == stateGetAll(st[env])
      mergeResult == mergeWithHidden(visibleElements, stateElements)
  IN [mergeErrors |-> mergeResult.errors,
      elements |-> keyByFullName(mergeResult.merged)]

\* only the added elements are merged again, the modified ones are lost
incrementalBuildAddedOnly(current, changes, st, cur) ==
  LET changeElems == [i \in 1..Len(changes) |-> getChangeElement(changes[i])]
      changedElementIDs == {getFullName(changeElems[i].elemID) : i \in 1..Len(changes)}
      addOrModify == SelectSeq(changes, LAMBDA c : c.action = "add")
      newElements == [i \in 1..Len(addOrModify) |-> getChangeElement(addOrModify[i])]
      mergeRes == mergeWithHidden(newElements,
                    Flatten([i \in 1..Len(newElements) |->
                               stateGet(st[cur], newElements[i].elemID)]))
      merged == calcNewMerged(objectValues(current.elements), mergeRes.merged,
                              changedElementIDs)
  IN [elements |-> keyByFullName(updateMergedTypes(merged, typesByName(merged))),
      mergeErrors |-> calcNewMerged(current.mergeErrors, mergeRes.errors,
                                    changedElementIDs)]

\* the errors of the changed elements are not dropped from the cached list
incrementalBuildKeepsErrors(current, changes, st, cur) ==
  LET changeElems == [i \in 1..Len(changes) |-> getChangeElement(changes[i])]
      changedElementIDs == {getFullName(changeElems[i].elemID) : i \in 1..Len(changes)}
      addOrModify == SelectSeq(changes, isAdditionOrModificationChange)
      newElements == [i \in 1..Len(addOrModify) |-> getChangeElement(addOrModify[i])]
      mergeRes == mergeWithHidden(newElements,
                    Flatten([i \in 1..Len(newElements) |->
                               stateGet(st[cur], newElements[i].elemID)]))
      merged == calcNewMerged(objectValues(current.elements), mergeRes.merged,
                              changedElementIDs)
  IN [elements |-> keyByFullName(updateMergedTypes(merged, typesByName(merged))),
      mergeErrors |-> current.mergeErrors \o mergeRes.errors]

incrementalBuild(current, changes, st, cur) ==
  LET changeElems == [i \in 1..Len(changes) |-> getChangeElement(changes[i])]
      changedElementIDs == {getFullName(changeElems[i].elemID) : i \in 1..Len(changes)}
      addOrModify == SelectSeq(changes, isAdditionOrModificationChange)
      newElements == [i \in 1..Len(addOrModify) |-> getChangeElement(addOrModify[i])]
      mergeRes == mergeWithHidden(newElements,
                    Flatten([i \in 1..Len(newElements) |->
                               stateGet(st[cur], newElements[i].elemID)]))
      merged == calcNewMerged(objectValues(current.elements), mergeRes.merged,
                              changedElementIDs)
  IN [elements |-> keyByFullName(updateMergedTypes(merged, typesByName(merged))),
      mergeErrors |-> calcNewMerged(current.mergeErrors, mergeRes.errors,
                                    changedElementIDs)]

\* buildWorkspaceState({ changes, env }), given the cache it finds
buildWorkspaceState(cache, changes, env, fs, st, cur) ==
  IF cache = Undefined \/ (env # NoEnv /\ env # cur)
  THEN fullBuild(fs, st, IF env = NoEnv THEN cur ELSE env)
  ELSE incrementalBuild(cache, changes, st, cur)

getWorkspaceState(cache, fs, st, cur) ==
  IF cache = Undefined THEN buildWorkspaceState(cache, <<>>, NoEnv, fs, st, cur)
  ELSE cache

pick(rec, keys) == [k \in DOMAIN rec \cap keys |-> rec[k]]

\* the source has already been updated to fs when this runs
updateStateAndReturnChanges(cache, elementChanges, fs, st, cur) ==
  LET changedElementIDs ==
        [i \in 1..Len(elementChanges) |->
           getFullName(getChangeElement(elementChanges[i]).elemID)]
      before == getWorkspaceState(cache, fs, st, cur)
      after == buildWorkspaceState(before, elementChanges, NoEnv, fs, st, cur)
      newElements == pick(after.elements, Range(changedElementIDs))
  IN [state |-> after,
      changes |-> calcChanges(changedElementIDs, before.elements, newElements)]

WsInit ==
  /\ files \in [FileNames -> {NoFile} \cup {b \in Buffers : Cardinality(b) <= 1}]
  /\ currentEnv = "env1"
  /\ stateStore \in [Envs -> StateChoices]
  /\ stateStore["env2"] = {}
  /\ workspaceState = Undefined
  /\ lastOp = [kind |-> "load", names |-> {}, changes |-> <<>>, merged |-> <<>>]

\* elements() / getElement / errors: the state is built on first use
Elements ==
  /\ workspaceState' = getWorkspaceState(workspaceState, files, stateView, naclFilesSource)
  /\ lastOp' = [kind |-> "elements", names |-> {}, changes |-> <<>>, merged |-> <<>>]
  /\ UNCHANGED <<files, currentEnv, stateStore>>

\* the source is updated to fs and reports its element changes; then
\* updateStateAndReturnChanges
ApplySourceUpdate(kind, names, fs) ==
  \E src \in {sourceUpdate(files, fs, names, naclFilesSource)} :
  \E res \in {updateStateAndReturnChanges(workspaceState, src.changes, fs, stateView,
                                           naclFilesSource)} :
     /\ files' = fs
     /\ workspaceState' = res.state
     /\ lastOp' = [kind |-> kind, names |-> names, changes |-> res.changes,
                   merged |-> src.mergedElements]
     /\ UNCHANGED <<currentEnv, stateStore>>

\* the files a call may name: those of common and of the current environment
EditableFiles == {f \in FileNames : SourceOfFile(f) \in {CommonSourceName, naclFilesSource}}

\* one file with any buffer, or several files of at most one block each
NaclFileArgs ==
  UNION {[F -> IF Cardinality(F) <= 1 THEN Buffers
               ELSE {b \in Buffers : Cardinality(b) <= 1}] : F \in SUBSET EditableFiles}

SetNaclFiles(naclFiles) ==
  ApplySourceUpdate("set", DOMAIN naclFiles, sourceSetNaclFiles(files, naclFiles))

RemoveNaclFiles(names) ==
  ApplySourceUpdate("remove", names, sourceRemoveNaclFiles(files, names))

\* ------------------------------------------------------------------------
\* updateNaclFiles(changes, mode): detailed changes routed to the files
\* ------------------------------------------------------------------------
DetailedChange(n, action, F) == [id |-> TopID(n), action |-> action, body |-> F]
RoutingModes == {"default", "isolated"}

bodiesOf(n) == IF n = TypeName THEN TypeBodies ELSE InstBodies

\* the detailed changes a client may submit for n, given the NaCl elements
detailedChangesFor(n, visible) ==
  IF <<n>> \in DOMAIN visible
  THEN {DetailedChange(n, "remove", {})}
         \cup {DetailedChange(n, "modify", F) : F \in bodiesOf(n) \ {visible[<<n>>].fields}}
  ELSE {DetailedChange(n, "add", F) : F \in bodiesOf(n)}

DetailedChangeBatches ==
  LET visible == keyByFullName(sourceGetAll(files, naclFilesSource))
      forT == {<<c>> : c \in detailedChangesFor(TypeName, visible)}
      forI == {<<c>> : c \in detailedChangesFor(InstName, visible)}
  IN forT \cup forI \cup {t \o i : t \in forT, i \in forI}

\* hidden-only changes never reach the NaCl files
handleHiddenChanges(changes, store) ==
  LET hiddenOnly(c) ==
        \E st \in store :
          /\ st.elemID = c.id
          /\ \/ st.hidden
             \/ c.action # "remove" /\ c.body \subseteq st.hiddenFields
  IN SelectSeq(changes, LAMBDA c : ~hiddenOnly(c))

envFileOf(env) == CHOOSE f \in FileNames : SourceOfFile(f) = env

definesIn(fs, f, n) == fs[f] # NoFile /\ \E b \in fs[f] : b.name = n

\* default writes to common when the element is in common and to the env
\* otherwise; isolated always writes to the current env
routeTarget(fs, n, mode, env) ==
  IF mode = "default" /\ definesIn(fs, CommonFile, n) THEN CommonFile
  ELSE envFileOf(env)

withoutBlock(buffer, n) == {b \in (IF buffer = NoFile THEN {} ELSE buffer) : b.name # n}

applyDetailedChange(fs, c, mode, env) ==
  LET n == c.id.top
      target == routeTarget(fs, n, mode, env)
  IN IF c.action = "remove"
     THEN [f \in FileNames |->
             IF definesIn(fs, f, n) /\ (mode = "default" \/ f = envFileOf(env))
                /\ SourceOfFile(f) \in {CommonSourceName, env}
             THEN withoutBlock(fs[f], n) ELSE fs[f]]
     ELSE [fs EXCEPT ![target] = withoutBlock(fs[target], n) \cup {Block(n, c.body)}]

RECURSIVE sourceUpdateNaclFiles(_, _, _, _)
sourceUpdateNaclFiles(fs, changes, mode, env) ==
  IF changes = <<>> THEN fs
  ELSE sourceUpdateNaclFiles(applyDetailedChange(fs, Head(changes), mode, env),
                             Tail(changes), mode, env)

UpdateNaclFiles(changes, mode) ==
  \E fs \in {sourceUpdateNaclFiles(files,
               handleHiddenChanges(changes, stateView[naclFilesSource]), mode, naclFilesSource)} :
  \E src \in {sourceUpdate(files, fs, {f \in FileNames : fs[f] # files[f]}, naclFilesSource)} :
     /\ files' = fs
     /\ workspaceState' = buildWorkspaceState(workspaceState, src.changes, NoEnv, fs,
                                              stateView, naclFilesSource)
     /\ lastOp' = [kind |-> "update", names |-> {}, changes |-> <<>>,
                   merged |-> src.mergedElements]
     /\ UNCHANGED <<currentEnv, stateStore>>

\* the workspace used on its own: no editor workspace acts
WsNext ==
  \/ Elements /\ UNCHANGED notWs
  \/ \E naclFiles \in NaclFileArgs :
       SetNaclFiles(naclFiles) /\ UNCHANGED notWs
  \/ \E names \in SUBSET EditableFiles :
       RemoveNaclFiles(names) /\ UNCHANGED notWs
  \/ \E changes \in DetailedChangeBatches, mode \in RoutingModes :
       UpdateNaclFiles(changes, mode) /\ UNCHANGED notWs

\* no editor workspace wraps the workspace: no call of an editor is recorded
WsAloneInit ==
  /\ WsInit /\ LifecycleLoaded /\ RecencyUnused /\ NotCloned /\ NothingRemoved
  /\ ListenerCreated
  /\ ConvertersLoaded
  /\ NothingWalked /\ NoCommandRun
  /\ EditorConstructed /\ expected = EmptyMap

SpecWs == WsAloneInit /\ [][WsNext]_vars

\* ------------------------------------------------------------------------
\* Properties of the merged cache
\* ------------------------------------------------------------------------
\* what a rebuild from scratch of the files present now returns
rebuiltState == fullBuild(files, stateView, naclFilesSource)

\* C1: after any sequence of setNaclFiles, removeNaclFiles and updateNaclFiles
\* batches the cached merged elements equal those of a rebuild from scratch.
C1_IncrementalEqualsFullBuild ==
  workspaceState # Undefined => workspaceState.elements = rebuiltState.elements

\* C2: on a freshly loaded empty workspace setNaclFiles of a file that defines
\* a new element returns exactly one add change for it; setting the file again
\* with another definition returns exactly one modify change; removing the
\* file returns exactly one remove change and leaves no elements.
exactlyOne(changes, action, n) ==
  /\ Len(changes) = 1
  /\ changes[1].action = action
  /\ getChangeElement(changes[1]).elemID = TopID(n)

onlyFile(fs, f, n) ==
  /\ namesIn(fs[f]) = {n}
  /\ \A g \in FileNames \ {f} : fs[g] = NoFile

C2_AddStep ==
  \A f \in FileNames, n \in Names :
    (/\ \A g \in FileNames : files[g] = NoFile
     /\ stateView[naclFilesSource] = {}
     /\ workspaceState = Undefined
     /\ lastOp'.kind = "set" /\ lastOp'.names = {f}
     /\ namesIn(files'[f]) = {n})
    => exactlyOne(lastOp'.changes, "add", n)

C2_ModifyStep ==
  \A f \in FileNames, n \in Names :
    (/\ onlyFile(files, f, n)
     /\ stateView[naclFilesSource] = {}
     /\ workspaceState # Undefined
     /\ lastOp'.kind = "set" /\ lastOp'.names = {f}
     /\ namesIn(files'[f]) = {n} /\ files'[f] # files[f])
    => exactlyOne(lastOp'.changes, "modify", n)

C2_RemoveStep ==
  \A f \in FileNames, n \in Names :
    (/\ onlyFile(files, f, n)
     /\ stateView[naclFilesSource] = {}
     /\ workspaceState # Undefined
     /\ lastOp'.kind = "remove" /\ lastOp'.names = {f})
    => /\ exactlyOne(lastOp'.changes, "remove", n)
       /\ DOMAIN workspaceState'.elements = {}

C2_AddModifyRemove ==
  [][C2_AddStep /\ C2_ModifyStep /\ C2_RemoveStep]_wsVars

\* C9: every key of the cached merged map is the full name of its element and
\* no full name occurs twice among the elements; so for the map returned by
\* buildNewMergedElementsAndErrors.
keysAreFullNames(rec) == \A k \in DOMAIN rec : getFullName(rec[k].elemID) = k

noDuplicateNames(list) ==
  \A i, j \in 1..Len(list) :
    i # j => getFullName(list[i].elemID) # getFullName(list[j].elemID)

C9_KeysAreFullNames ==
  /\ workspaceState # Undefined =>
       /\ keysAreFullNames(workspaceState.elements)
       /\ noDuplicateNames(objectValues(workspaceState.elements))
  /\ keysAreFullNames(lastOp.merged)

C9_Witness ==
  /\ lastOp.kind \in {"set", "remove", "update"}
  /\ workspaceState # Undefined
  /\ Cardinality(DOMAIN workspaceState.elements) = 2
  /\ Cardinality(DOMAIN lastOp.merged) = 2

\* C10: after setNaclFiles(f) getElement returns an element for every
\* top-level element defined in f.
getElement(elemID) ==
  lookup(getWorkspaceState(workspaceState, files, stateView, naclFilesSource).elements,
         getFullName(elemID))

C10_SetElementsReachable ==
  lastOp.kind = "set" =>
    \A f \in lastOp.names : \A e \in parse(files[f]) : getElement(e.elemID) # Undefined

C10_Witness ==
  /\ lastOp.kind = "set"
  /\ \E f \in lastOp.names : Cardinality(parse(files[f])) = 2
  /\ lastOp.changes # <<>>

\* C11: after removeNaclFiles(names) getElement returns undefined for every
\* element whose fragments were all in the removed files, and still returns
\* an element for every element that has a fragment in another file.
fragmentFiles(fs, env, n) ==
  {f \in Range(effectiveFiles(fs, env)) : n \in namesIn(fs[f])}

C11_RemoveStep ==
  lastOp'.kind = "remove" =>
    \A n \in Names :
      /\ (/\ fragmentFiles(files, naclFilesSource, n) # {}
          /\ fragmentFiles(files, naclFilesSource, n) \subseteq lastOp'.names)
         => getElement(TopID(n))' = Undefined
      /\ (fragmentFiles(files, naclFilesSource, n) \ lastOp'.names # {})
         => getElement(TopID(n))' # Undefined

C11_RemovedFileElementsGone == [][C11_RemoveStep]_wsVars

\* a removal took away the only file of one element and one of the two files
\* of another
C11_Witness ==
  /\ lastOp.kind = "remove"
  /\ \E c \in Range(lastOp.changes) : c.action = "remove"
  /\ \E c \in Range(lastOp.changes) : c.action = "modify"

\* the element changes the source reports for the step: the batch the cached
\* state is updated with
changeBatch ==
  sourceUpdate(files, files', {f \in FileNames : files'[f] # files[f]},
               naclFilesSource).changes

changedTopLevelIDs ==
  {getFullName(getChangeElement(c).elemID) : c \in Range(changeBatch)}

incrementalUpdate ==
  /\ workspaceState # Undefined
  /\ lastOp'.kind \in {"set", "remove", "update"}

scopedTo(e, ids) == getFullName(createTopLevelParentID(e.elemID).parent) \in ids

\* C28: on every incremental update the new merge-error list is the previous
\* list without the errors scoped to a changed top-level ID, in its previous
\* order, followed by the merge errors of the changed elements merged again.
C28_Step ==
  incrementalUpdate =>
    \E ids \in {changedTopLevelIDs} :
    \E fs \in {files'} : \E stateElements \in {stateView'} :
    \E rebuilt \in {fullBuild(fs, stateElements, naclFilesSource).mergeErrors} :
      workspaceState'.mergeErrors =
        SelectSeq(workspaceState.mergeErrors, LAMBDA e : ~scopedTo(e, ids))
          \o SelectSeq(rebuilt, LAMBDA e : scopedTo(e, ids))

C28_MergeErrorsRecomputed == [][C28_Step]_wsVars

\* an update that changed the instance alone kept the two errors of the type
C28_Witness ==
  /\ lastOp.kind \in {"set", "remove"}
  /\ lastOp.changes # <<>>
  /\ \A c \in Range(lastOp.changes) : getChangeElement(c).elemID = TopID(InstName)
  /\ workspaceState # Undefined
  /\ Len(workspaceState.mergeErrors) = 2

\* C29: an incremental update touches only the changed top-level IDs: a full
\* name that is not the ID of an element of the change batch has an entry in
\* the cached merged map after the batch iff it had one before, and a removal
\* change deletes exactly the entry of the removed ID.
removedTopLevelIDs ==
  {getFullName(getChangeElement(c).elemID) :
     c \in {x \in Range(changeBatch) : isRemovalChange(x)}}

C29_Step ==
  incrementalUpdate =>
    \E ids \in {changedTopLevelIDs} : \E removed \in {removedTopLevelIDs} :
      /\ \A n \in Names :
           <<n>> \notin ids =>
             (<<n>> \in DOMAIN workspaceState'.elements
                <=> <<n>> \in DOMAIN workspaceState.elements)
      /\ removed \cap DOMAIN workspaceState'.elements = {}
      /\ DOMAIN workspaceState.elements \ DOMAIN workspaceState'.elements = removed

C29_OnlyChangedIDsTouched == [][C29_Step]_wsVars

\* a removal took one element out of the cached map and left the other
C29_Witness ==
  /\ lastOp.kind \in {"set", "remove"}
  /\ Len(lastOp.changes) = 1
  /\ isRemovalChange(lastOp.changes[1])
  /\ workspaceState # Undefined
  /\ Cardinality(DOMAIN workspaceState.elements) = 1
  /\ getFullName(getChangeElement(lastOp.changes[1]).elemID)
       \notin DOMAIN workspaceState.elements

\* C37: the changes a call returns hold at most one change for each relevant
\* top-level ID and none for any other ID: an addition for an ID whose element
\* is there only after the call, a removal for one that is there only before,
\* a modification for one that is there before and after with unequal
\* elements, and no change for an ID that is absent both times or whose
\* element is equal before and after.
changesOf(changes, id) ==
  SelectSeq(changes, LAMBDA c : getFullName(getChangeElement(c).elemID) = id)

\* the full names handed to calcChanges: those of the elements the source
\* reports as changed for the files the call named (lines 291 and 297)
reportedBy(fs, names) ==
  {getFullName(getChangeElement(c).elemID) :
     c \in Range(sourceUpdate(files, fs, names, naclFilesSource).changes)}

C37_Step ==
  lastOp'.kind \in {"set", "remove"} =>
    \E fs \in {files'} : \E changes \in {lastOp'.changes} :
    \E after \in {workspaceState'.elements} : \E ids \in {reportedBy(fs, lastOp'.names)} :
    \E before \in {getWorkspaceState(workspaceState, fs, stateView,
                                      naclFilesSource).elements} :
    \E inFiles \in {UNION {namesIn(files[f]) \cup namesIn(fs[f]) : f \in lastOp'.names}} :
      \A n \in Names :
        LET cs == changesOf(changes, <<n>>)
            b == lookup(before, <<n>>)
            a == lookup(after, <<n>>)
        IN /\ Len(cs) <= 1
           /\ (n \notin inFiles \/ <<n>> \notin ids) => cs = <<>>
           /\ b = a => cs = <<>>
           /\ (<<n>> \in ids /\ b # a) =>
                /\ Len(cs) = 1
                /\ cs[1].data = [before |-> b, after |-> a]
                /\ cs[1].action = IF b = Undefined THEN "add"
                                  ELSE IF a = Undefined THEN "remove" ELSE "modify"

C37_OneChangePerID == [][C37_Step]_wsVars

\* one call returned an addition and a removal
C37_Witness ==
  /\ lastOp.kind \in {"set", "remove"}
  /\ \E i, j \in 1..Len(lastOp.changes) :
       lastOp.changes[i].action = "add" /\ lastOp.changes[j].action = "remove"

\* ------------------------------------------------------------------------
\* workspace.ts: environments, services, clear (each call awaited before the
\* next one is made)
\* ------------------------------------------------------------------------
\* envs(): the names of the configured environments, in order
envs == [i \in 1..Len(workspaceConfig.envs) |-> workspaceConfig.envs[i].name]

\* currentEnvConf(): the first configured environment named currentEnv()
currentEnvConf == SelectSeq(workspaceConfig.envs, LAMBDA e : e.name = currentEnv)

\* services(): makeArray(currentEnvConf().services)
services == currentEnvConf[1].services

\* a promise of buildWorkspaceState that rejected with a TypeError
Rejected == [rejected |-> "TypeError"]

\* _.mapValues(elementsSources.sources, e => e.naclFiles) reads a property of
\* undefined when a key of sources holds no source
multiEnvSourceThrows(srcs) == \E e \in DOMAIN srcs : srcs[e] = NoSource

\* multiEnvSource(..., currentEnv(), commonSourceName): the primary source
multiEnvSource(srcs, cur) == IF cur \in DOMAIN srcs THEN srcs[cur] ELSE NoSource

LastOp(kind) == [kind |-> kind, names |-> {}, changes |-> <<>>, merged |-> <<>>]

\* the call throws before it changed anything
Throws(call, error) ==
  /\ outcome' = Outcome(call, error, FALSE)
  /\ lastOp' = LastOp(call)
  /\ UNCHANGED <<files, currentEnv, stateStore, workspaceState, workspaceConfig,
                 persistedConfig, credentials, sources, naclFilesSource, envCalls>>

\* the call goes on to change the configuration
Changes == envCalls < MaxEnvCalls /\ envCalls' = envCalls + 1

addService(service) ==
  IF currentEnvConf = <<>>
  THEN Throws("addService", "TypeError")
  ELSE IF service \in Range(services)
  THEN Throws("addService", "ServiceDuplicationError")
  ELSE
    /\ Changes
    /\ workspaceConfig' =
         [workspaceConfig EXCEPT !.envs =
            [i \in 1..Len(@) |->
               IF i = CHOOSE j \in 1..Len(@) :
                        /\ @[j].name = currentEnv
                        /\ \A k \in 1..(j - 1) : @[k].name # currentEnv
               THEN EnvConfig(@[i].name, Append(services, service))
               ELSE @[i]]]
    /\ persistedConfig' = configOf(workspaceConfig', currentEnv)
    /\ outcome' = Outcome("addService", "none", TRUE)
    /\ lastOp' = LastOp("addService")
    /\ UNCHANGED <<files, currentEnv, stateStore, workspaceState, credentials, sources,
                   naclFilesSource>>

\* the environment is appended without looking at the configured ones
addEnvironmentUnchecked(env) ==
  /\ Changes
  /\ workspaceConfig' = [workspaceConfig EXCEPT !.envs = Append(@, EnvConfig(env, <<>>))]
  /\ persistedConfig' = configOf(workspaceConfig', currentEnv)
  /\ outcome' = Outcome("addEnvironment", "none", TRUE)
  /\ lastOp' = LastOp("addEnvironment")
  /\ UNCHANGED <<files, currentEnv, stateStore, workspaceState, credentials, sources,
                 naclFilesSource>>

addEnvironment(env) ==
  IF env \in Range(envs)
  THEN Throws("addEnvironment", "EnvDuplicationError")
  ELSE
    /\ Changes
    /\ workspaceConfig' = [workspaceConfig EXCEPT !.envs = Append(@, EnvConfig(env, <<>>))]
    /\ persistedConfig' = configOf(workspaceConfig', currentEnv)
    /\ outcome' = Outcome("addEnvironment", "none", TRUE)
    /\ lastOp' = LastOp("addEnvironment")
    /\ UNCHANGED <<files, currentEnv, stateStore, workspaceState, credentials, sources,
                   naclFilesSource>>

\* naclFilesSource = multiEnvSource(...): assigned unless building it throws
naclFilesSourceReplaced(call, srcs, cur) ==
  IF multiEnvSourceThrows(srcs)
  THEN /\ outcome' = Outcome(call, "TypeError", TRUE)
       /\ UNCHANGED naclFilesSource
  ELSE /\ outcome' = Outcome(call, "none", TRUE)
       /\ naclFilesSource' = multiEnvSource(srcs, cur)

\* the current environment is deleted like any other
deleteEnvironmentAlsoCurrent(env) ==
  IF env \notin Range(envs)
  THEN Throws("deleteEnvironment", "UnknownEnvError")
  ELSE
    /\ Changes
    /\ workspaceConfig' =
         [workspaceConfig EXCEPT !.envs = SelectSeq(@, LAMBDA e : e.name # env)]
    /\ persistedConfig' = configOf(workspaceConfig', currentEnv)
    /\ credentials' = credentials \ {env}
    /\ IF hasSource(env)
       THEN /\ files' = [f \in FileNames |->
                           IF SourceOfFile(f) = sources[env] THEN NoFile ELSE files[f]]
            /\ stateStore' = [stateStore EXCEPT ![sources[env]] = {}]
       ELSE UNCHANGED <<files, stateStore>>
    /\ sources' = [e \in DOMAIN sources \ {env} |-> sources[e]]
    /\ naclFilesSourceReplaced("deleteEnvironment", sources', currentEnv)
    /\ lastOp' = LastOp("deleteEnvironment")
    /\ UNCHANGED <<currentEnv, workspaceState>>

deleteEnvironment(env) ==
  IF env \notin Range(envs)
  THEN Throws("deleteEnvironment", "UnknownEnvError")
  ELSE IF env = currentEnv
  THEN Throws("deleteEnvironment", "DeleteCurrentEnvError")
  ELSE
    /\ Changes
    /\ workspaceConfig' =
         [workspaceConfig EXCEPT !.envs = SelectSeq(@, LAMBDA e : e.name # env)]
    /\ persistedConfig' = configOf(workspaceConfig', currentEnv)
    /\ credentials' = credentials \ {env}
    /\ IF hasSource(env)
       THEN /\ files' = [f \in FileNames |->
                           IF SourceOfFile(f) = sources[env] THEN NoFile ELSE files[f]]
            /\ stateStore' = [stateStore EXCEPT ![sources[env]] = {}]
       ELSE UNCHANGED <<files, stateStore>>
    /\ sources' = [e \in DOMAIN sources \ {env} |-> sources[e]]
    /\ naclFilesSourceReplaced("deleteEnvironment", sources', currentEnv)
    /\ lastOp' = LastOp("deleteEnvironment")
    /\ UNCHANGED <<currentEnv, workspaceState>>

\* renameEnvironment without lines 523-525: the current environment keeps its
\* old name
renameEnvironmentKeepsCurrent(envName, newEnvName) ==
  IF envName \notin Range(envs)
  THEN Throws("renameEnvironment", "UnknownEnvError")
  ELSE IF newEnvName \in Range(envs)
  THEN Throws("renameEnvironment", "EnvDuplicationError")
  ELSE
    /\ Changes
    /\ workspaceConfig' =
         [workspaceConfig EXCEPT !.envs =
            [i \in 1..Len(@) |->
               IF @[i].name = envName THEN EnvConfig(newEnvName, @[i].services)
               ELSE @[i]]]
    /\ persistedConfig' = configOf(workspaceConfig', currentEnv)
    /\ credentials' = IF envName \in credentials
                      THEN (credentials \ {envName}) \cup {newEnvName}
                      ELSE credentials
    /\ sources' = [e \in (DOMAIN sources \ {envName}) \cup {newEnvName} |->
                     IF e = newEnvName
                     THEN IF envName \in DOMAIN sources THEN sources[envName] ELSE NoSource
                     ELSE sources[e]]
    /\ naclFilesSourceReplaced("renameEnvironment", sources', currentEnv)
    /\ lastOp' = LastOp("renameEnvironment")
    /\ UNCHANGED <<files, stateStore, workspaceState, currentEnv>>

renameEnvironment(envName, newEnvName) ==
  IF envName \notin Range(envs)
  THEN Throws("renameEnvironment", "UnknownEnvError")
  ELSE IF newEnvName \in Range(envs)
  THEN Throws("renameEnvironment", "EnvDuplicationError")
  ELSE
    /\ Changes
    /\ workspaceConfig' =
         [workspaceConfig EXCEPT !.envs =
            [i \in 1..Len(@) |->
               IF @[i].name = envName THEN EnvConfig(newEnvName, @[i].services)
               ELSE @[i]]]
    /\ currentEnv' = IF envName = currentEnv THEN newEnvName ELSE currentEnv
    /\ persistedConfig' = configOf(workspaceConfig', currentEnv')
    /\ credentials' = IF envName \in credentials
                      THEN (credentials \ {envName}) \cup {newEnvName}
                      ELSE credentials
    /\ sources' = [e \in (DOMAIN sources \ {envName}) \cup {newEnvName} |->
                     IF e = newEnvName
                     THEN IF envName \in DOMAIN sources THEN sources[envName] ELSE NoSource
                     ELSE sources[e]]
    /\ naclFilesSourceReplaced("renameEnvironment", sources', currentEnv')
    /\ lastOp' = LastOp("renameEnvironment")
    /\ UNCHANGED <<files, stateStore, workspaceState>>

setCurrentEnv(env, persist) ==
  IF env \notin Range(envs)
  THEN Throws("setCurrentEnv", "UnknownEnvError")
  ELSE
    /\ currentEnv' = env
    /\ IF persist
       THEN persistedConfig' = configOf(workspaceConfig, env)
       ELSE UNCHANGED persistedConfig
    /\ IF multiEnvSourceThrows(sources)
       THEN /\ outcome' = Outcome("setCurrentEnv", "TypeError", persist)
            /\ UNCHANGED <<naclFilesSource, workspaceState>>
       ELSE /\ outcome' = Outcome("setCurrentEnv", "none", persist)
            /\ naclFilesSource' = multiEnvSource(sources, env)
            /\ workspaceState' = Undefined
    /\ lastOp' = LastOp("setCurrentEnv")
    /\ UNCHANGED <<files, stateStore, workspaceConfig, credentials, sources, envCalls>>

ClearArg(nacl, state, cache, staticResources, creds) ==
  [nacl |-> nacl, state |-> state, cache |-> cache,
   staticResources |-> staticResources, credentials |-> creds]

\* nothing, one component at a time, static resources with and without the
\* components they need, everything
ClearArgs ==
  {ClearArg(FALSE, FALSE, FALSE, FALSE, FALSE),
   ClearArg(TRUE, FALSE, FALSE, FALSE, FALSE),
   ClearArg(FALSE, TRUE, FALSE, FALSE, FALSE),
   ClearArg(FALSE, FALSE, TRUE, FALSE, FALSE),
   ClearArg(FALSE, FALSE, FALSE, FALSE, TRUE),
   ClearArg(FALSE, FALSE, FALSE, TRUE, FALSE),
   ClearArg(TRUE, FALSE, TRUE, TRUE, FALSE),
   ClearArg(TRUE, TRUE, TRUE, TRUE, FALSE),
   ClearArg(TRUE, TRUE, TRUE, TRUE, TRUE)}

\* the environments whose state store state(e).clear() reached, in the order
\* of envs(); the series stops at the first environment without a source
clearedStates ==
  {sources[envs[i]] : i \in {j \in 1..Len(envs) : \A k \in 1..j : hasSource(envs[k])}}

\* clear without the test of lines 450-452
clearUnchecked(args) ==
  /\ files' = IF args.nacl THEN [f \in FileNames |-> NoFile] ELSE files
  /\ stateStore' = IF args.state
                   THEN [e \in Envs |-> IF e \in clearedStates THEN {} ELSE stateStore[e]]
                   ELSE stateStore
  /\ IF args.state /\ \E i \in 1..Len(envs) : ~hasSource(envs[i])
     THEN /\ outcome' = Outcome("clear", "TypeError", FALSE)
          /\ UNCHANGED <<credentials, workspaceState>>
     ELSE /\ outcome' = Outcome("clear", "none", FALSE)
          /\ credentials' = IF args.credentials THEN credentials \ Range(envs)
                            ELSE credentials
          /\ workspaceState' = Undefined
  /\ lastOp' = LastOp("clear")
  /\ UNCHANGED <<currentEnv, workspaceConfig, persistedConfig, sources, naclFilesSource,
                 envCalls>>

clear(args) ==
  IF (args.cache \/ args.nacl \/ args.staticResources)
     /\ args.staticResources /\ ~(args.state /\ args.cache /\ args.nacl)
  THEN Throws("clear", "Error")
  ELSE
    /\ files' = IF args.nacl THEN [f \in FileNames |-> NoFile] ELSE files
    /\ stateStore' = IF args.state
                     THEN [e \in Envs |-> IF e \in clearedStates THEN {} ELSE stateStore[e]]
                     ELSE stateStore
    /\ IF args.state /\ \E i \in 1..Len(envs) : ~hasSource(envs[i])
       THEN /\ outcome' = Outcome("clear", "TypeError", FALSE)
            /\ UNCHANGED <<credentials, workspaceState>>
       ELSE /\ outcome' = Outcome("clear", "none", FALSE)
            /\ credentials' = IF args.credentials THEN credentials \ Range(envs)
                              ELSE credentials
            /\ workspaceState' = Undefined
    /\ lastOp' = LastOp("clear")
    /\ UNCHANGED <<currentEnv, workspaceConfig, persistedConfig, sources, naclFilesSource,
                   envCalls>>

\* elements() when the state cannot be built: state(env) reads a property of
\* the undefined source of the current environment, and the rejected promise
\* stays in workspaceState
canBuild == naclFilesSource # NoSource /\ hasSource(currentEnv)

ElementsOrRejects ==
  IF workspaceState = Rejected \/ (workspaceState = Undefined /\ ~canBuild)
  THEN /\ workspaceState' = Rejected
       /\ outcome' = Outcome("elements", "TypeError", FALSE)
       /\ lastOp' = LastOp("elements")
       /\ UNCHANGED <<files, currentEnv, stateStore, workspaceConfig, persistedConfig,
                      credentials, sources, naclFilesSource, envCalls>>
  ELSE /\ Elements
       /\ outcome' = Outcome("elements", "none", FALSE)
       /\ UNCHANGED <<workspaceConfig, persistedConfig, credentials, sources,
                      naclFilesSource, envCalls>>

\* the files are edited while the state of the current environment can be built
editable == canBuild /\ workspaceState # Rejected

\* the buffers the files are set to while the environments change
EnvBuffers == {{Block(InstName, {"a"})}}

EnvNaclFileArgs ==
  {naclFiles \in NaclFileArgs :
     /\ Cardinality(DOMAIN naclFiles) = 1
     /\ \A f \in DOMAIN naclFiles : naclFiles[f] \in EnvBuffers}

EnvFilesUnchanged(call) ==
  /\ outcome' = Outcome(call, "none", FALSE)
  /\ UNCHANGED <<workspaceConfig, persistedConfig, credentials, sources, naclFilesSource,
                 envCalls>>

EnvInitFiles ==
  {[f \in FileNames |-> IF f = CommonFile THEN {Block(TypeName, {"a"})}
                        ELSE {Block(InstName, {"a"})}]}

EnvInit ==
  /\ files \in EnvInitFiles
  /\ currentEnv = "env1"
  /\ stateStore = [e \in Envs |-> IF e = "env1" THEN {StateElem(TypeName, {"h"}, TRUE, {})}
                                 ELSE {}]
  /\ workspaceState = Undefined
  /\ lastOp = LastOp("load")
  /\ LifecycleLoaded
  /\ RecencyUnused
  /\ NotCloned
  /\ NothingRemoved
  /\ ListenerCreated
  /\ ConvertersLoaded
  /\ NothingWalked /\ NoCommandRun
  /\ EditorConstructed
  /\ expected = EmptyMap

EnvNext ==
  \/ ElementsOrRejects /\ UNCHANGED notEnv
  \/ \E naclFiles \in EnvNaclFileArgs :
       editable /\ SetNaclFiles(naclFiles) /\ EnvFilesUnchanged("setNaclFiles")
                /\ UNCHANGED notEnv
  \/ \E f \in EditableFiles :
       editable /\ RemoveNaclFiles({f}) /\ EnvFilesUnchanged("removeNaclFiles")
                /\ UNCHANGED notEnv
  \/ \E service \in Services : addService(service) /\ UNCHANGED notEnv
  \/ \E env \in EnvNames : addEnvironment(env) /\ UNCHANGED notEnv
  \/ \E env \in EnvNames : deleteEnvironment(env) /\ UNCHANGED notEnv
  \/ \E envName, newEnvName \in EnvNames :
       renameEnvironment(envName, newEnvName) /\ UNCHANGED notEnv
  \/ \E env \in EnvNames, persist \in BOOLEAN :
       setCurrentEnv(env, persist) /\ UNCHANGED notEnv
  \/ \E args \in ClearArgs : clear(args) /\ UNCHANGED notEnv

SpecEnv == EnvInit /\ [][EnvNext]_vars

\* ------------------------------------------------------------------------
\* Properties of the environments
\* ------------------------------------------------------------------------
\* what a build from the sources of the current environment returns
currentEnvState ==
  IF hasSource(currentEnv) THEN fullBuild(files, stateStore, sources[currentEnv])
  ELSE Undefined

\* C12: after setCurrentEnv(E) or clear(args) resolved, the next elements()
\* call rebuilds the state from the sources of the then-current environment:
\* it returns neither what was cached for the previous environment nor what
\* was cached before the clear.
C12_NextElementsStep ==
  (/\ lastOp.kind \in {"setCurrentEnv", "clear"}
   /\ outcome.error = "none"
   /\ lastOp'.kind = "elements")
  => /\ workspaceState' # Undefined
     /\ workspaceState' = currentEnvState

C12_CacheInvalidated == [][C12_NextElementsStep]_vars

\* the same for the environments that have a source
C12_WithSource == [][hasSource(currentEnv) => C12_NextElementsStep]_vars

\* the call failed with the error and changed nothing: the configured
\* environments and their services, the current environment, the persisted
\* config, the credentials and the environment sources are as before
FailedWith(error) ==
  /\ outcome'.error = error
  /\ ~outcome'.persisted
  /\ UNCHANGED <<workspaceConfig, currentEnv, persistedConfig, credentials, sources,
                 naclFilesSource, files, stateStore>>

\* C17: deleteEnvironment(env) fails with UnknownEnvError when env is not in
\* envs() and with DeleteCurrentEnvError when env is the current environment,
\* and then nothing is changed.
C17_DeleteStep ==
  \A env \in EnvNames :
    (lastOp'.kind = "deleteEnvironment" /\ deleteEnvironment(env)) =>
      /\ env \notin Range(envs) => FailedWith("UnknownEnvError")
      /\ env = currentEnv => FailedWith("DeleteCurrentEnvError")

C17_DeleteFailsUnchanged == [][C17_DeleteStep]_vars

C17_Witness ==
  /\ lastOp.kind = "deleteEnvironment"
  /\ outcome.error = "DeleteCurrentEnvError"
  /\ envCalls > 0

\* C18 as stated: renameEnvironment fails with EnvDuplicationError whenever
\* the new name is in envs(), and with UnknownEnvError whenever the old name
\* is not.
C18_RenameEitherError ==
  [][\A envName, newEnvName \in EnvNames :
       (lastOp'.kind = "renameEnvironment" /\ renameEnvironment(envName, newEnvName)) =>
         /\ newEnvName \in Range(envs) => FailedWith("EnvDuplicationError")
         /\ envName \notin Range(envs) => FailedWith("UnknownEnvError")]_vars

\* C18: addEnvironment of a configured environment fails with
\* EnvDuplicationError; renameEnvironment fails with UnknownEnvError when the
\* old name is not in envs() and otherwise with EnvDuplicationError when the
\* new name is in envs(); setCurrentEnv of an unknown environment fails with
\* UnknownEnvError; addService of a service of the current environment fails
\* with ServiceDuplicationError; each failure leaves the environments, the
\* current environment and the services as they were and persists nothing.
C18_FailStep ==
  /\ \A env \in EnvNames :
       (lastOp'.kind = "addEnvironment" /\ addEnvironment(env) /\ env \in Range(envs))
       => FailedWith("EnvDuplicationError")
  /\ \A envName, newEnvName \in EnvNames :
       (lastOp'.kind = "renameEnvironment" /\ renameEnvironment(envName, newEnvName)) =>
         /\ envName \notin Range(envs) => FailedWith("UnknownEnvError")
         /\ (envName \in Range(envs) /\ newEnvName \in Range(envs))
            => FailedWith("EnvDuplicationError")
  /\ \A env \in EnvNames, persist \in BOOLEAN :
       (lastOp'.kind = "setCurrentEnv" /\ setCurrentEnv(env, persist)
        /\ env \notin Range(envs))
       => FailedWith("UnknownEnvError")
  /\ \A service \in Services :
       (lastOp'.kind = "addService" /\ addService(service)
        /\ currentEnvConf # <<>> /\ service \in Range(services))
       => FailedWith("ServiceDuplicationError")

C18_DuplicatesAndUnknownsFail == [][C18_FailStep]_vars

C18_Witness ==
  /\ lastOp.kind = "addService"
  /\ outcome.error = "ServiceDuplicationError"
  /\ \E i \in 1..Len(workspaceConfig.envs) : workspaceConfig.envs[i].services # <<>>

\* lines 541-544: setCurrentEnv(env, true) where config.setWorkspaceConfig
\* rejects: workspaceConfig.currentEnv is assigned, the lines after the await
\* (naclFilesSource, workspaceState) are not reached
setCurrentEnvRejects(env) ==
  /\ env \in Range(envs)
  /\ currentEnv' = env
  /\ outcome' = Outcome("setCurrentEnv", "setWorkspaceConfig rejected", FALSE)
  /\ lastOp' = LastOp("setCurrentEnv")
  /\ UNCHANGED <<files, stateStore, workspaceState, workspaceConfig, persistedConfig,
                 credentials, sources, naclFilesSource, envCalls>>

\* the calls of a workspace whose config source may fail to persist
EnvPersistNext ==
  \/ EnvNext
  \/ \E env \in EnvNames : setCurrentEnvRejects(env) /\ UNCHANGED notEnv

SpecEnvPersist == EnvInit /\ [][EnvPersistNext]_vars

\* C33: a cached merged state was built from the NaCl source and the state
\* store of currentEnv(): after any sequence of elements(), setNaclFiles,
\* setCurrentEnv (successful or failing, with or without persist),
\* renameEnvironment and clear, the cache never holds elements of an
\* environment other than the current one.
builtFor(src) == fullBuild(files, stateStore, src).elements

\* what the sources of the current environment define of the element k
definedForCurrent(k) ==
  IF hasSource(currentEnv) /\ k \in DOMAIN builtFor(sources[currentEnv])
  THEN builtFor(sources[currentEnv])[k].fields
  ELSE {}

\* the cache holds, for k, something only another environment defines
foreign(k) ==
  \E f \in workspaceState.elements[k].fields \ definedForCurrent(k) :
    \E src \in Envs :
      k \in DOMAIN builtFor(src) /\ f \in builtFor(src)[k].fields

cached == workspaceState # Undefined /\ workspaceState # Rejected

C33_CacheOfCurrentEnv ==
  cached => \A k \in DOMAIN workspaceState.elements : ~foreign(k)

\* C34: after any sequence of addEnvironment, deleteEnvironment,
\* renameEnvironment and setCurrentEnv calls (successful or failing), envs()
\* is non-empty and holds no name twice, currentEnv() is one of envs(), and
\* renaming the current environment makes currentEnv() return the new name.
C34_EnvsWellFormed ==
  /\ Len(envs) > 0
  /\ \A i, j \in 1..Len(envs) : i # j => envs[i] # envs[j]
  /\ currentEnv \in Range(envs)

C34_RenameStep ==
  \A envName, newEnvName \in EnvNames :
    (/\ lastOp'.kind = "renameEnvironment"
     /\ outcome'.error \notin {"UnknownEnvError", "EnvDuplicationError"}
     /\ renameEnvironment(envName, newEnvName)
     /\ envName = currentEnv)
    => /\ currentEnv' = newEnvName
       /\ newEnvName \in Range(envs')
       /\ envName \notin Range(envs')

builtForEnv(includeHidden, env) ==
  IF includeHidden
  THEN fullBuild(files, stateStore, sources[env]).elements
  ELSE keyByFullName(sourceGetAll(files, sources[env]))

\* the state built for the other environment is kept as the cached one
elementsOfEnvCached(includeHidden, env) ==
  /\ env # currentEnv
  /\ hasSource(env) /\ naclFilesSource # NoSource
  /\ outcome' = Outcome("elements", "none", FALSE)
  /\ lastOp' = [kind |-> "elementsOfEnv", names |-> {env}, changes |-> <<>>,
                merged |-> builtForEnv(includeHidden, env)]
  /\ workspaceState' = IF includeHidden THEN fullBuild(files, stateStore, sources[env])
                       ELSE workspaceState
  /\ UNCHANGED <<files, currentEnv, stateStore, workspaceConfig,
                 persistedConfig, credentials, sources, naclFilesSource, envCalls>>

elementsOfEnv(includeHidden, env) ==
  /\ env # currentEnv
  /\ IF hasSource(env) /\ naclFilesSource # NoSource
     THEN /\ outcome' = Outcome("elements", "none", FALSE)
          /\ lastOp' = [kind |-> "elementsOfEnv", names |-> {env}, changes |-> <<>>,
                        merged |-> builtForEnv(includeHidden, env)]
     ELSE /\ outcome' = Outcome("elements", "TypeError", FALSE)
          /\ lastOp' = [kind |-> "elementsOfEnv", names |-> {env}, changes |-> <<>>,
                        merged |-> <<>>]
  /\ UNCHANGED <<files, currentEnv, stateStore, workspaceState, workspaceConfig,
                 persistedConfig, credentials, sources, naclFilesSource, envCalls>>

EnvQueryNext ==
  \/ EnvNext
  \/ \E includeHidden \in BOOLEAN, env \in EnvNames :
       elementsOfEnv(includeHidden, env) /\ UNCHANGED notEnv

SpecEnvQuery == EnvInit /\ [][EnvQueryNext]_vars

\* what elements() and errors() of the current environment have to go on
currentEnvResult(cache, fs, st, cur) ==
  IF cache = Rejected \/ cur = NoSource THEN Rejected
  ELSE getWorkspaceState(cache, fs, st, cur)

\* C35: elements(includeHidden, env) for an env other than currentEnv() builds
\* the state of that env from its own sources and leaves the cached merged
\* state of the current environment as it was: elements() and errors() of the
\* current environment return after the query what they returned before it,
\* and currentEnv() is unchanged.
C35_Step ==
  lastOp'.kind = "elementsOfEnv" =>
    \E cache \in {workspaceState'} : \E fs \in {files'} : \E st \in {stateView'} :
    \E cur \in {naclFilesSource'} : \E ret \in {lastOp'.merged} :
      /\ cache = workspaceState
      /\ currentEnv' = currentEnv
      /\ hasSource(currentEnv) =>
           currentEnvResult(cache, fs, st, cur)
             = currentEnvResult(workspaceState, files, stateView, naclFilesSource)
      /\ outcome'.error = "none" =>
           \E env \in lastOp'.names :
             ret \in {fullBuild(files, stateStore, sources[env]).elements,
                      keyByFullName(sourceGetAll(files, sources[env]))}

C35_OtherEnvLeavesCache == [][C35_Step]_vars

\* the state of env2 was returned while the state of env1 is cached, and the
\* two differ
C35_Witness ==
  /\ lastOp.kind = "elementsOfEnv"
  /\ outcome.error = "none"
  /\ cached
  /\ lastOp.merged # workspaceState.elements
  /\ lastOp.merged = fullBuild(files, stateStore, sources["env2"]).elements

\* C36: clear(args) with staticResources set but not all of state, cache and
\* nacl set throws before it cleared anything: the NaCl files, the state
\* stores, the credentials and the cached merged state are unchanged. Every
\* clear that does not throw leaves no cached merged state.
staticResourcesAlone(args) ==
  args.staticResources /\ ~(args.state /\ args.cache /\ args.nacl)

C36_Step ==
  \A args \in ClearArgs :
    (lastOp'.kind = "clear" /\ clear(args)) =>
      /\ staticResourcesAlone(args) =>
           /\ outcome'.error = "Error"
           /\ UNCHANGED <<files, stateStore, credentials, workspaceState>>
      /\ outcome'.error = "none" => workspaceState' = Undefined

C36_ClearThrowsOrDiscards == [][C36_Step]_vars

\* clear threw for static resources alone while files, state, credentials and
\* a cached state were there to be cleared
C36_Witness ==
  /\ lastOp.kind = "clear"
  /\ outcome.error = "Error"
  /\ cached
  /\ \E f \in FileNames : files[f] # NoFile
  /\ \E e \in Envs : stateStore[e] # {}

\* ------------------------------------------------------------------------
\* workspace.ts: getStateRecency
\* ------------------------------------------------------------------------
DEFAULT_STALE_STATE_THRESHOLD_MINUTES == 60 * 24 * 7

\* x || d for an optional number x: undefined and 0 are falsy
orDefault(x, d) == IF x = NotConfigured \/ x = {0} THEN d ELSE CHOOSE n \in x : TRUE

recencyStatus(date, at, staleStateThresholdMs) ==
  IF date = NoDate THEN "Nonexistent"
  ELSE IF at - (CHOOSE t \in date : TRUE) >= staleStateThresholdMs THEN "Old"
  ELSE "Valid"

getStateRecency(serviceName) ==
  LET staleStateThresholdMs ==
        orDefault(workspaceConfig.staleStateThresholdMinutes,
                  DEFAULT_STALE_STATE_THRESHOLD_MINUTES) * 60 * 1000
      date == updateDates[sources[currentEnv]][serviceName]
  IN /\ hasSource(currentEnv)
     /\ recency' = [serviceName |-> serviceName,
                    status |-> recencyStatus(date, now, staleStateThresholdMs),
                    date |-> date,
                    at |-> now]
     /\ UNCHANGED <<updateDates, now>>

\* the thresholds configured, the instants of the clock and the update dates:
\* ages of a minute, two minutes and seven days, each one millisecond less
\* and more, and dates in the future
ThresholdChoices == {NotConfigured, {0}, {1}, {2}}
Minute == 60 * 1000
Week == DEFAULT_STALE_STATE_THRESHOLD_MINUTES * Minute
Instants == {0, Minute, Minute + 1, 2 * Minute, 2 * Minute + 1, Week, Week + 1}
DateChoices == {NoDate, {0}, {1}, {Minute}}

\* the clock moves on, and a fetch stores the date of the update
ClockAdvances(t) ==
  /\ t > now
  /\ now' = t
  /\ UNCHANGED <<updateDates, recency>>

StateUpdated(serviceName) ==
  /\ updateDates' = [updateDates EXCEPT ![sources[currentEnv]][serviceName] = {now}]
  /\ UNCHANGED <<now, recency>>

RecencyInit ==
  /\ files = [f \in FileNames |-> NoFile]
  /\ currentEnv = "env1"
  /\ stateStore = [e \in Envs |-> {}]
  /\ workspaceState = Undefined
  /\ lastOp = LastOp("load")
  /\ \E t \in ThresholdChoices :
       workspaceConfig = [envs |-> <<EnvConfig("env1", <<"salesforce">>),
                                     EnvConfig("env2", <<>>)>>,
                          staleStateThresholdMinutes |-> t]
  /\ persistedConfig = configOf(workspaceConfig, "env1")
  /\ credentials = Envs
  /\ sources = [e \in Envs |-> e]
  /\ naclFilesSource = "env1"
  /\ outcome = Outcome("load", "none", FALSE)
  /\ envCalls = 0
  /\ updateDates \in [Envs -> [Services -> DateChoices]]
  /\ updateDates["env2"] = [s \in Services |-> NoDate]
  /\ now = 0
  /\ recency = Undefined
  /\ NotCloned
  /\ NothingRemoved
  /\ ListenerCreated
  /\ ConvertersLoaded
  /\ NothingWalked /\ NoCommandRun
  /\ EditorConstructed
  /\ expected = EmptyMap

notRecency == <<wsVars, edVars, histVars, lcVars, clVars, valVars, dgVars, psVars, tfVars,
  cliVars>>

RecencyNext ==
  \/ \E serviceName \in Services : getStateRecency(serviceName) /\ UNCHANGED notRecency
  \/ \E t \in Instants : ClockAdvances(t) /\ UNCHANGED notRecency
  \/ \E serviceName \in Services : StateUpdated(serviceName) /\ UNCHANGED notRecency

SpecRecency == RecencyInit /\ [][RecencyNext]_vars

\* C19: getStateRecency returns Nonexistent when the state of the current
\* environment has no update date for the service, Old when now - date is at
\* least the threshold, Valid otherwise; the threshold is the configured
\* staleStateThresholdMinutes, in minutes, and seven days when none is
\* configured; the date returned is the update date.
claimedThresholdMs ==
  (IF workspaceConfig.staleStateThresholdMinutes = NotConfigured
   THEN 7 * 24 * 60
   ELSE CHOOSE n \in workspaceConfig.staleStateThresholdMinutes : TRUE) * 60 * 1000

C19_RecencyStep ==
  recency' # recency =>
    /\ recency'.date = updateDates[sources[currentEnv]][recency'.serviceName]
    /\ recency'.date = NoDate => recency'.status = "Nonexistent"
    /\ recency'.date # NoDate =>
         recency'.status =
           IF now - (CHOOSE t \in recency'.date : TRUE) >= claimedThresholdMs
           THEN "Old" ELSE "Valid"

C19_StateRecency == [][C19_RecencyStep]_vars

\* the same for every threshold but a configured zero, which is taken for
\* none and gives seven days
C19_NonZeroThreshold ==
  [][workspaceConfig.staleStateThresholdMinutes # {0} => C19_RecencyStep]_vars

\* ------------------------------------------------------------------------
\* workspace.ts: clone
\* ------------------------------------------------------------------------
\* the sources of the clone: which NaCl sources and which state stores it
\* works on, and its own workspaceState
Cloned(naclFiles, state) ==
  [naclFiles |-> naclFiles, state |-> state, workspaceState |-> Undefined]

\* the NaCl sources are not copied
cloneSharingNaclFiles ==
  /\ clone = Undefined
  /\ clone' = Cloned("original", "original")
  /\ cloneFiles' = files
  /\ lastOn' = "original"
  /\ UNCHANGED <<wsVars, cloneCalls>>

\* clone(): loadWorkspace over naclFiles.clone() and the state of each source
cloneWorkspace ==
  /\ clone = Undefined
  /\ clone' = Cloned("copy", "original")
  /\ cloneFiles' = files
  /\ lastOn' = "original"
  /\ UNCHANGED <<wsVars, cloneCalls>>

\* the buffers the clone reads and writes
naclFilesOfClone == IF clone.naclFiles = "original" THEN files ELSE cloneFiles

\* the clone loads the persisted config
currentEnvOfClone == sources[persistedConfig.currentEnv]

\* a call on the clone wrote fs and left the cached state st
CloneWrites(fs, st) ==
  /\ clone' = [clone EXCEPT !.workspaceState = st]
  /\ IF clone.naclFiles = "original"
     THEN files' = fs /\ UNCHANGED cloneFiles
     ELSE cloneFiles' = fs /\ UNCHANGED files
  /\ lastOn' = "clone"
  /\ cloneCalls < MaxCloneCalls
  /\ cloneCalls' = cloneCalls + 1
  /\ UNCHANGED <<currentEnv, stateStore, workspaceState, lastOp>>

CloneElements ==
  /\ clone # Undefined
  /\ CloneWrites(naclFilesOfClone,
                 getWorkspaceState(clone.workspaceState, naclFilesOfClone, stateStore,
                                   currentEnvOfClone))

CloneApplySourceUpdate(names, fs) ==
  \E src \in {sourceUpdate(naclFilesOfClone, fs, names, currentEnvOfClone)} :
  \E res \in {updateStateAndReturnChanges(clone.workspaceState, src.changes, fs,
                                           stateStore, currentEnvOfClone)} :
     CloneWrites(fs, res.state)

CloneSetNaclFiles(naclFiles) ==
  /\ clone # Undefined
  /\ CloneApplySourceUpdate(DOMAIN naclFiles,
                            sourceSetNaclFiles(naclFilesOfClone, naclFiles))

CloneRemoveNaclFiles(names) ==
  /\ clone # Undefined
  /\ CloneApplySourceUpdate(names, sourceRemoveNaclFiles(naclFilesOfClone, names))

CloneUpdateNaclFiles(changes, mode) ==
  /\ clone # Undefined
  /\ \E fs \in {sourceUpdateNaclFiles(naclFilesOfClone,
                  handleHiddenChanges(changes, stateStore[currentEnvOfClone]), mode,
                  currentEnvOfClone)} :
     \E src \in {sourceUpdate(naclFilesOfClone, fs,
                              {f \in FileNames : fs[f] # naclFilesOfClone[f]},
                              currentEnvOfClone)} :
        CloneWrites(fs, buildWorkspaceState(clone.workspaceState, src.changes, NoEnv, fs,
                                            stateStore, currentEnvOfClone))

\* a call on the original
OnOriginal ==
  /\ lastOn' = "original"
  /\ cloneCalls < MaxCloneCalls
  /\ cloneCalls' = cloneCalls + 1
  /\ UNCHANGED <<clone, cloneFiles>>

\* the files set while a clone is around: one file, one block
CloneNaclFileArgs ==
  {naclFiles \in NaclFileArgs :
     /\ Cardinality(DOMAIN naclFiles) = 1
     /\ \A f \in DOMAIN naclFiles : Cardinality(naclFiles[f]) = 1}

CloneInit ==
  /\ files \in EnvInitFiles \cup {[f \in FileNames |-> NoFile]}
  /\ currentEnv = "env1"
  /\ stateStore = [e \in Envs |-> IF e = "env1" THEN {StateElem(TypeName, {"h"}, TRUE, {})}
                                 ELSE {}]
  /\ workspaceState = Undefined
  /\ lastOp = LastOp("load")
  /\ LifecycleLoaded
  /\ RecencyUnused
  /\ NotCloned
  /\ NothingRemoved
  /\ ListenerCreated
  /\ ConvertersLoaded
  /\ NothingWalked /\ NoCommandRun
  /\ EditorConstructed
  /\ expected = EmptyMap

notClone == <<edVars, histVars, lcVars, rcVars, valVars, dgVars, psVars, tfVars,
  cliVars>>

CloneNext ==
  \/ cloneWorkspace /\ UNCHANGED notClone
  \/ Elements /\ OnOriginal /\ UNCHANGED notClone
  \/ \E naclFiles \in CloneNaclFileArgs :
       SetNaclFiles(naclFiles) /\ OnOriginal /\ UNCHANGED notClone
  \/ \E f \in EditableFiles : RemoveNaclFiles({f}) /\ OnOriginal /\ UNCHANGED notClone
  \/ \E changes \in DetailedChangeBatches, mode \in RoutingModes :
       UpdateNaclFiles(changes, mode) /\ OnOriginal /\ UNCHANGED notClone
  \/ CloneElements /\ UNCHANGED notClone
  \/ \E naclFiles \in CloneNaclFileArgs : CloneSetNaclFiles(naclFiles) /\ UNCHANGED notClone
  \/ \E f \in EditableFiles : CloneRemoveNaclFiles({f}) /\ UNCHANGED notClone
  \/ \E changes \in DetailedChangeBatches, mode \in RoutingModes :
       CloneUpdateNaclFiles(changes, mode) /\ UNCHANGED notClone

SpecClone == CloneInit /\ [][CloneNext]_vars

\* C20: a call of setNaclFiles, removeNaclFiles or updateNaclFiles on the
\* clone leaves the files and the cached merged elements and merge errors of
\* the original as they were, a call on the original leaves those of the
\* clone as they were, and both workspaces use the same state stores.
C20_CloneStep ==
  clone # Undefined =>
    /\ clone'.state = "original"
    /\ lastOn' = "clone" => UNCHANGED <<files, workspaceState, stateStore>>
    /\ lastOn' = "original" =>
         /\ cloneFiles' = cloneFiles
         /\ clone'.workspaceState = clone.workspaceState
         /\ stateStore' = stateStore

ValueID(n, f) == [top |-> n, path |-> <<f>>]
isParentOf(id, other) ==
  /\ id.top = other.top
  /\ Len(id.path) < Len(other.path)
  /\ SubSeq(other.path, 1, Len(id.path)) = id.path

\* the reference expressions among the values of e: each value of an
\* instance is written as a reference to the type, `a = T`
referenceExpressions(e) ==
  IF isType(e) THEN {}
  ELSE {[elemPath |-> ValueID(e.elemID.top, f), elemId |-> TopID(e.type.name)] :
          f \in e.fields}

UnresolvedReferenceValidationError(elemID, target) == [elemID |-> elemID, target |-> target]
isUnresolvedRefError(e) == TRUE

\* rule 2: a reference expression whose target does not resolve in universe
validateElements(elements, universe) ==
  {UnresolvedReferenceValidationError(r.elemPath, r.elemId) :
     r \in {x \in UNION {referenceExpressions(elements[i]) : i \in 1..Len(elements)} :
              <<x.elemId.top>> \notin DOMAIN universe}}

\* errors(validate): the buffers of the model always parse
workspaceErrors(state, validate) ==
  [parse |-> <<>>,
   merge |-> state.mergeErrors,
   validation |-> IF validate
                  THEN validateElements(objectValues(state.elements), state.elements)
                  ELSE {}]

\* ------------------------------------------------------------------------
\* EditorWorkspace: pending queue, aggregated set operation, serialization
\* ------------------------------------------------------------------------
\* reads recorded while one batch is applied
MaxReadsPerBatch == 1

EdBuffers == {{Block(TypeName, {"a"})}, {Block(InstName, {"a"})}}
NaclFile(f, b) == [filename |-> f, buffer |-> b]
\* the arguments of a call: no file or one file
EdNaclFileArgs == {<<>>} \cup {<<NaclFile(f, b)>> : f \in FileNames, b \in EdBuffers}
EdNameArgs == {<<>>} \cup {<<f>> : f \in FileNames}

\* _.keyBy(naclFiles, 'filename')
keyByFilename(naclFiles) ==
  [f \in {naclFiles[i].filename : i \in 1..Len(naclFiles)} |->
     LET idx == {i \in 1..Len(naclFiles) : naclFiles[i].filename = f}
     IN naclFiles[CHOOSE i \in idx : \A j \in idx : j <= i].buffer]

hasPendingUpdates(pSets, pDeletes) == ~(DOMAIN pSets = {} /\ pDeletes = {})

\* an entry already pending keeps its buffer
addPendingNaclFilesKeepFirst(pSets, naclFiles) == pSets @@ keyByFilename(naclFiles)

\* _.assignWith(this.pendingSets, _.keyBy(naclFiles, 'filename'))
addPendingNaclFiles(pSets, naclFiles) == keyByFilename(naclFiles) @@ pSets

addPendingDeletes(pDeletes, names) == pDeletes \cup Range(names)

\* a drain is triggered whatever runningSetOperation holds
canTriggerAlways(rso) == TRUE

\* the guard of triggerAggregatedSetOperation
canTrigger(rso) == rso = Undefined

\* the slot is tested once, before the await, and not again after it
runOperationWithWorkspaceWaitsOnce(rwo, woken) == ~woken /\ rwo # Undefined

\* the loop condition of runOperationWithWorkspace; woken: after the await
runOperationWithWorkspaceWaits(rwo, woken) == rwo # Undefined

\* one call of runOperationWithWorkspace: the drain or a caller's operation
Op(kind, status) ==
  [kind |-> kind, status |-> status, wakeable |-> FALSE, pc |-> "none",
   opDeletes |-> {}, opNaclFiles |-> EmptyMap, changes |-> <<>>]

\* the emptiness of the captured queues is not tested: lines 213 and 217
awaitFromUntested(step, opDeletes, opNaclFiles, errs) ==
  IF step <= 1 THEN "removeNaclFiles"
  ELSE IF step <= 2 THEN "setNaclFiles"
  ELSE IF step <= 3 /\ errs # Undefined THEN "getValidationErrors"
  ELSE "recurse"

\* the next await of runAggregatedSetOperation from its step-th statement on:
\* 1 removeNaclFiles, 2 setNaclFiles, 3 getValidationErrors, then the recursion
awaitFrom(step, opDeletes, opNaclFiles, errs) ==
  IF step <= 1 /\ opDeletes # {} THEN "removeNaclFiles"
  ELSE IF step <= 2 /\ DOMAIN opNaclFiles # {} THEN "setNaclFiles"
  ELSE IF step <= 3 /\ errs # Undefined THEN "getValidationErrors"
  ELSE "recurse"

\* runAggregatedSetOperation from its entry to its first await or its return
runAggregatedSetOperation(pSets, pDeletes) ==
  IF hasPendingUpdates(pSets, pDeletes)
  THEN [finished |-> FALSE, pendingSets |-> EmptyMap, pendingDeletes |-> {},
        opDeletes |-> pDeletes, opNaclFiles |-> pSets,
        pc |-> awaitFrom(1, pDeletes, pSets, Undefined)]
  ELSE [finished |-> TRUE, pendingSets |-> pSets, pendingDeletes |-> pDeletes,
        opDeletes |-> {}, opNaclFiles |-> EmptyMap, pc |-> "return"]

startedDrain(r) ==
  [kind |-> "drain", status |-> IF r.finished THEN "finished" ELSE "running",
   wakeable |-> FALSE, pc |-> r.pc, opDeletes |-> r.opDeletes,
   opNaclFiles |-> r.opNaclFiles, changes |-> <<>>]

RemoveAt(s, i) == SubSeq(s, 1, i - 1) \o SubSeq(s, i + 1, Len(s))

\* the promise the waiters await has resolved
wakeAll(s) ==
  [j \in 1..Len(s) |->
     IF s[j].status = "waiting" THEN [s[j] EXCEPT !.wakeable = TRUE] ELSE s[j]]

\* what the elements getter and errors() return
editorView(cache, fs, st, cur, errs) ==
  LET state == getWorkspaceState(cache, fs, st, cur)
  IN [elements |-> state.elements,
      errors |-> IF errs = Undefined THEN workspaceErrors(state, TRUE) ELSE errs]

\* what holds at the moment a promise of the editor workspace resolves
Resolved(by, pSets, pDeletes, unapplied, fs, exp, awaited) ==
  [by |-> by, pending |-> hasPendingUpdates(pSets, pDeletes),
   allApplied |-> unapplied = {}, inCallOrder |-> fs = exp, awaited |-> awaited]

\* last call per filename, and the buffers of the calls before it
written(lw, naclFiles) ==
  LET new == keyByFilename(naclFiles)
  IN [f \in DOMAIN lw \cup DOMAIN new |->
        IF f \notin DOMAIN new THEN lw[f]
        ELSE [buffer |-> new[f],
              earlier |-> IF f \in DOMAIN lw
                          THEN lw[f].earlier \cup {lw[f].buffer} ELSE {}]]

\* no promise resolves, no workspace call completes, no batch ends in this step
NoResolutionNow == resolution' = NoResolution
NoCallNow == applied' = Undefined
NoBatchEndNow == tornReads' = NoReads

EdInitFiles ==
  {[f \in FileNames |-> NoFile],
   [f \in FileNames |-> IF f = CommonFile THEN {Block(TypeName, {"a"})} ELSE NoFile]}

EdInit ==
  /\ files \in EdInitFiles
  /\ currentEnv = "env1"
  /\ stateStore = [e \in Envs |-> {}]
  /\ workspaceState = Undefined
  /\ lastOp = [kind |-> "load", names |-> {}, changes |-> <<>>, merged |-> <<>>]
  /\ LifecycleLoaded
  /\ RecencyUnused
  /\ NotCloned
  /\ NothingRemoved
  /\ ListenerCreated
  /\ ConvertersLoaded
  /\ NothingWalked /\ NoCommandRun
  /\ EditorConstructed
  /\ expected = files

\* the operation of the drain runs up to its first await, or returns at once
\* when nothing is pending; viaTrigger: triggerAggregatedSetOperation then
\* assigns the promise to runningSetOperation (line 243)
DrainStarts(pSets, pDeletes, qd, lw, viaTrigger, by) ==
  LET r == runAggregatedSetOperation(pSets, pDeletes) IN
  /\ pendingSets' = r.pendingSets
  /\ pendingDeletes' = r.pendingDeletes
  /\ runningWorkspaceOperation' = PromisePending
  /\ runningSetOperation' =
       IF viaTrigger THEN (IF r.finished THEN PromiseResolved ELSE PromisePending)
       ELSE IF r.finished THEN Undefined ELSE runningSetOperation
  /\ queued' = IF r.finished THEN qd ELSE {}
  /\ taken' = IF r.finished THEN taken ELSE taken \cup qd
  /\ lastWritten' = IF r.finished THEN lw ELSE EmptyMap
  /\ batch' = IF r.finished THEN batch
              ELSE [before |-> editorView(workspaceState, files, stateView, naclFilesSource,
                                          wsErrors),
                    reads |-> NoReads, written |-> lw]
  /\ resolution' = IF r.finished
                   THEN Resolved(by, pSets, pDeletes, qd \cup taken, files, expected',
                                 ~viaTrigger)
                   ELSE NoResolution

\* lines 241-247, after the call has enqueued its arguments
triggerAggregatedSetOperation(by, pSets, pDeletes, qd, lw) ==
  IF canTrigger(runningSetOperation)
  THEN IF runOperationWithWorkspaceWaits(runningWorkspaceOperation, FALSE)
       THEN /\ ops' = <<Op("drain", "waiting")>> \o ops
            /\ runningSetOperation' = PromisePending
            /\ pendingSets' = pSets
            /\ pendingDeletes' = pDeletes
            /\ queued' = qd
            /\ lastWritten' = lw
            /\ NoResolutionNow
            /\ UNCHANGED <<runningWorkspaceOperation, taken, batch>>
       ELSE /\ ops' = <<startedDrain(runAggregatedSetOperation(pSets, pDeletes))>> \o ops
            /\ DrainStarts(pSets, pDeletes, qd, lw, TRUE, by)
  ELSE /\ pendingSets' = pSets
       /\ pendingDeletes' = pDeletes
       /\ queued' = qd
       /\ lastWritten' = lw
       /\ resolution' = IF runningSetOperation = PromiseResolved
                        THEN Resolved(by, pSets, pDeletes, qd \cup taken, files,
                                      expected', FALSE)
                        ELSE NoResolution
       /\ UNCHANGED <<ops, runningSetOperation, runningWorkspaceOperation, taken, batch>>

\* lines 284-287
EdSetNaclFiles(naclFiles) ==
  /\ calls < MaxCalls
  /\ calls' = calls + 1
  /\ expected' = sourceSetNaclFiles(expected, keyByFilename(naclFiles))
  /\ triggerAggregatedSetOperation("setNaclFiles",
       addPendingNaclFiles(pendingSets, naclFiles), pendingDeletes,
       queued \cup {[kind |-> "set", filename |-> f] : f \in DOMAIN keyByFilename(naclFiles)},
       written(lastWritten, naclFiles))
  /\ NoCallNow /\ NoBatchEndNow
  /\ UNCHANGED <<wsVars, wsErrors>>

\* lines 289-292
EdRemoveNaclFiles(names) ==
  /\ calls < MaxCalls
  /\ calls' = calls + 1
  /\ expected' = sourceRemoveNaclFiles(expected, Range(names))
  /\ triggerAggregatedSetOperation("removeNaclFiles",
       pendingSets, addPendingDeletes(pendingDeletes, names),
       queued \cup {[kind |-> "remove", filename |-> f] : f \in Range(names)},
       lastWritten)
  /\ NoCallNow /\ NoBatchEndNow
  /\ UNCHANGED <<wsVars, wsErrors>>

\* lines 332-334: await this.runningSetOperation
AwaitAllUpdates ==
  /\ IF runningSetOperation = PromisePending
     THEN NoResolutionNow
     ELSE resolution' = Resolved("awaitAllUpdates", pendingSets, pendingDeletes,
                                    queued \cup taken, files, expected, TRUE)
  /\ NoCallNow /\ NoBatchEndNow
  /\ UNCHANGED <<wsVars, edVars, calls, expected, queued, taken, lastWritten, batch>>

\* lines 341-349, called with an operation of the caller
RunOperationWithWorkspace ==
  /\ Cardinality({i \in 1..Len(ops) : ops[i].kind = "user"}) < MaxUserOps
  /\ IF runOperationWithWorkspaceWaits(runningWorkspaceOperation, FALSE)
     THEN /\ ops' = Append(ops, Op("user", "waiting"))
          /\ UNCHANGED runningWorkspaceOperation
     ELSE /\ ops' = Append(ops, Op("user", "running"))
          /\ runningWorkspaceOperation' = PromisePending
  /\ NoResolutionNow /\ NoCallNow /\ NoBatchEndNow
  /\ UNCHANGED <<wsVars, pendingSets, pendingDeletes, runningSetOperation, wsErrors,
                 calls, expected, queued, taken, lastWritten, batch>>

\* lines 342-347: the promise a waiter awaited has resolved
WaiterWakes(i) ==
  /\ ops[i].status = "waiting" /\ ops[i].wakeable
  /\ UNCHANGED <<wsVars, wsErrors, calls, expected>>
  /\ IF runOperationWithWorkspaceWaits(runningWorkspaceOperation, TRUE)
     THEN /\ ops' = [ops EXCEPT ![i].wakeable = FALSE]
          /\ NoResolutionNow
          /\ UNCHANGED <<pendingSets, pendingDeletes, runningSetOperation,
                         runningWorkspaceOperation, queued, taken, lastWritten, batch>>
     ELSE IF ops[i].kind = "user"
     THEN /\ ops' = [ops EXCEPT ![i].status = "running"]
          /\ runningWorkspaceOperation' = PromisePending
          /\ NoResolutionNow
          /\ UNCHANGED <<pendingSets, pendingDeletes, runningSetOperation, queued, taken,
                         lastWritten, batch>>
     ELSE /\ ops' = [ops EXCEPT
                       ![i] = startedDrain(runAggregatedSetOperation(pendingSets,
                                                                     pendingDeletes))]
          /\ DrainStarts(pendingSets, pendingDeletes, queued, lastWritten, FALSE, "drain")
  /\ NoCallNow /\ NoBatchEndNow

\* the operation of a caller resolves
UserOperationResolves(i) ==
  /\ ops[i].kind = "user" /\ ops[i].status = "running"
  /\ ops' = [ops EXCEPT ![i].status = "finished"]
  /\ NoResolutionNow /\ NoCallNow /\ NoBatchEndNow
  /\ UNCHANGED <<wsVars, pendingSets, pendingDeletes, runningSetOperation,
                 runningWorkspaceOperation, wsErrors, calls, expected, queued, taken,
                 lastWritten, batch>>

\* lines 336-339: the continuation of waitForOperation
WaitForOperationContinues(i) ==
  /\ ops[i].status = "finished"
  /\ runningWorkspaceOperation' = Undefined
  /\ ops' = wakeAll(RemoveAt(ops, i))
  /\ NoResolutionNow /\ NoCallNow /\ NoBatchEndNow
  /\ UNCHANGED <<wsVars, pendingSets, pendingDeletes, runningSetOperation, wsErrors,
                 calls, expected, queued, taken, lastWritten, batch>>

\* the reverse reference index of the NaCl source: the files whose parse
\* referenced id
getElementReferencedFiles(fs, id) ==
  {f \in FileNames :
     /\ fs[f] # NoFile
     /\ \E e \in parse(fs[f]) : \E r \in referenceExpressions(e) : r.elemId = id}

\* the removals among the detailed changes of a modification
removedNonTopLevels(c) ==
  LET before == c.data.before
      after == c.data.after
  IN {IF isType(before) THEN FieldID(before.elemID.top, f)
      ELSE ValueID(before.elemID.top, f) : f \in before.fields \ after.fields}

\* lines 111-135: the values of the file that refer to one of references
getUnresolvedRefOfFile(fs, filename, references) ==
  UNION {{UnresolvedReferenceValidationError(r.elemPath, ref) :
            ref \in {x \in references : x = r.elemId \/ isParentOf(x, r.elemId)}} :
           r \in UNION {referenceExpressions(e) : e \in parse(fs[filename])}}

\* lines 137-154: by file referencing the top level parent of an id
getUnresolvedRefForElement(fs, ids) ==
  LET filesOf(id) == getElementReferencedFiles(fs, createTopLevelParentID(id).parent)
  IN UNION {getUnresolvedRefOfFile(fs, f, {id \in ids : f \in filesOf(id)}) :
              f \in UNION {filesOf(id) : id \in ids}}

\* every element the files define is validated again
elementNamesToValidateAll(errs, fs, changedFiles, changes) ==
  {getFullName(e.elemID) :
     e \in UNION {parse(fs[f]) : f \in {g \in FileNames : fs[g] # NoFile}}}

\* lines 168-177: the names of the elements of the changed files, of the
\* elements that have validation errors and of the changed elements
elementNamesToValidate(errs, fs, changedFiles, changes) ==
  LET elementsWithValidationErrors ==
        {getFullName(createTopLevelParentID(e.elemID).parent) : e \in errs.validation}
      elementsInChangedFiles ==
        {getFullName(e.elemID) :
           e \in UNION {parse(fs[f]) : f \in {g \in changedFiles : fs[g] # NoFile}}}
      changed == {getFullName(getChangeElement(changes[i]).elemID) :
                    i \in 1..Len(changes)}
  IN elementsInChangedFiles \cup elementsWithValidationErrors \cup changed

\* lines 162-204: validation is run again on the elements of the changed
\* files, on those that had validation errors and on the changed ones; the
\* values that refer to a removed element are unresolved references
getValidationErrors(errs, fs, state, changedFiles, changes) ==
  LET all == objectValues(state.elements)
      names == elementNamesToValidate(errs, fs, changedFiles, changes)
      elementsToValidate ==
        SelectSeq(all, LAMBDA e : getFullName(e.elemID) \in names)
      validationErrors == validateElements(elementsToValidate, state.elements)
      removalChangesOfTopLevels ==
        {getChangeElement(changes[i]).elemID :
           i \in {j \in 1..Len(changes) : isRemovalChange(changes[j])}}
      removalChangesOfNonTopLevels ==
        UNION {removedNonTopLevels(changes[i]) :
                 i \in {j \in 1..Len(changes) : changes[j].action = "modify"}}
      unresolvedReferences ==
        getUnresolvedRefForElement(fs, removalChangesOfTopLevels
                                         \cup removalChangesOfNonTopLevels)
      unresolvedReferencesElemIDs == {getFullName(e.elemID) : e \in unresolvedReferences}
  IN {e \in validationErrors :
        ~isUnresolvedRefError(e) \/ getFullName(e.elemID) \notin unresolvedReferencesElemIDs}
       \cup unresolvedReferences

\* runAggregatedSetOperation of ops[i] goes on after its await number `step`
\* (the workspace and wsErrors already hold their new values): to its next
\* await, or through the recursive call of line 235
DrainContinues(i, step, changes, tk) ==
  LET d == ops[i]
      pc == awaitFrom(step + 1, d.opDeletes, d.opNaclFiles, wsErrors')
      r == runAggregatedSetOperation(pendingSets, pendingDeletes)
      after == editorView(workspaceState', files', stateView, naclFilesSource, wsErrors')
  IN IF pc # "recurse"
     THEN /\ ops' = [ops EXCEPT ![i].pc = pc, ![i].changes = changes]
          /\ taken' = tk
          /\ NoResolutionNow /\ NoBatchEndNow
          /\ UNCHANGED <<pendingSets, pendingDeletes, runningSetOperation, queued,
                         lastWritten, batch>>
     ELSE /\ ops' = [ops EXCEPT ![i] = startedDrain(r)]
          /\ tornReads' = IF batch = Undefined THEN NoReads
                          ELSE [of \in DOMAIN NoReads |->
                                  {v \in batch.reads[of] :
                                     v # batch.before[of] /\ v # after[of]}]
          /\ pendingSets' = r.pendingSets
          /\ pendingDeletes' = r.pendingDeletes
          /\ runningSetOperation' = IF r.finished THEN Undefined ELSE runningSetOperation
          /\ queued' = IF r.finished THEN queued ELSE {}
          /\ taken' = IF r.finished THEN tk ELSE tk \cup queued
          /\ lastWritten' = IF r.finished THEN lastWritten ELSE EmptyMap
          /\ batch' = IF r.finished THEN Undefined
                      ELSE [before |-> after, reads |-> NoReads, written |-> lastWritten]
          /\ resolution' = IF r.finished
                           THEN Resolved("drain", pendingSets, pendingDeletes,
                                         queued \cup tk, files', expected, TRUE)
                           ELSE NoResolution

\* line 214: workspace.removeNaclFiles(...opDeletes) resolves
RemoveNaclFilesResolves(i) ==
  /\ ops[i].status = "running" /\ ops[i].pc = "removeNaclFiles"
  /\ RemoveNaclFiles(ops[i].opDeletes)
  /\ applied' = [call |-> "removeNaclFiles", names |-> ops[i].opDeletes]
  /\ UNCHANGED <<runningWorkspaceOperation, wsErrors, calls, expected>>
  /\ DrainContinues(i, 1, lastOp'.changes,
       {e \in taken : e.kind # "remove" \/ e.filename \notin ops[i].opDeletes})

\* line 218: workspace.setNaclFiles(..._.values(opNaclFiles)) resolves
SetNaclFilesResolves(i) ==
  /\ ops[i].status = "running" /\ ops[i].pc = "setNaclFiles"
  /\ SetNaclFiles(ops[i].opNaclFiles)
  /\ applied' = [call |-> "setNaclFiles", naclFiles |-> ops[i].opNaclFiles,
                 written |-> IF batch = Undefined THEN EmptyMap ELSE batch.written]
  /\ UNCHANGED <<runningWorkspaceOperation, wsErrors, calls, expected>>
  /\ DrainContinues(i, 2, ops[i].changes \o lastOp'.changes,
       {e \in taken : e.kind # "set" \/ e.filename \notin DOMAIN ops[i].opNaclFiles})

\* lines 220-230: the error set is replaced
ValidationResolves(i) ==
  /\ ops[i].status = "running" /\ ops[i].pc = "getValidationErrors"
  /\ Elements
  /\ wsErrors' =
       [parse |-> workspaceErrors(workspaceState', FALSE).parse,
        merge |-> workspaceErrors(workspaceState', FALSE).merge,
        validation |->
          getValidationErrors(wsErrors, files, workspaceState',
            ops[i].opDeletes \cup DOMAIN ops[i].opNaclFiles, ops[i].changes)]
  /\ applied' = [call |-> "validateElements",
                 names |-> elementNamesToValidate(wsErrors, files,
                             ops[i].opDeletes \cup DOMAIN ops[i].opNaclFiles,
                             ops[i].changes)]
  /\ UNCHANGED <<runningWorkspaceOperation, calls, expected>>
  /\ DrainContinues(i, 3, <<>>, taken)

\* a read may be recorded while a batch is applied
ReadRecorded(of, value) ==
  /\ batch # Undefined =>
       Cardinality(batch.reads.elements) + Cardinality(batch.reads.errors)
         < MaxReadsPerBatch
  /\ batch' = IF batch = Undefined THEN batch
              ELSE [batch EXCEPT !.reads[of] = @ \cup {value}]

\* lines 43-45: the elements getter
EdElements ==
  /\ Elements
  /\ ReadRecorded("elements", workspaceState'.elements)
  /\ NoResolutionNow /\ NoCallNow /\ NoBatchEndNow
  /\ UNCHANGED <<edVars, calls, expected, queued, taken, lastWritten>>

\* lines 47-52: errors()
EdErrors ==
  /\ IF wsErrors = Undefined
     THEN Elements /\ wsErrors' = workspaceErrors(workspaceState', TRUE)
     ELSE UNCHANGED <<wsVars, wsErrors>>
  /\ ReadRecorded("errors", wsErrors')
  /\ NoResolutionNow /\ NoCallNow /\ NoBatchEndNow
  /\ UNCHANGED <<pendingSets, pendingDeletes, runningSetOperation,
                 runningWorkspaceOperation, ops, calls, expected, queued, taken,
                 lastWritten>>

EdNext ==
  \/ (\E naclFiles \in EdNaclFileArgs : EdSetNaclFiles(naclFiles)) /\ UNCHANGED notEd
  \/ (\E names \in EdNameArgs : EdRemoveNaclFiles(names)) /\ UNCHANGED notEd
  \/ AwaitAllUpdates /\ UNCHANGED notEd
  \/ RunOperationWithWorkspace /\ UNCHANGED notEd
  \/ (\E i \in 1..Len(ops) : WaiterWakes(i)) /\ UNCHANGED notEd
  \/ (\E i \in 1..Len(ops) : UserOperationResolves(i)) /\ UNCHANGED notEd
  \/ (\E i \in 1..Len(ops) : WaitForOperationContinues(i)) /\ UNCHANGED notEd
  \/ (\E i \in 1..Len(ops) : RemoveNaclFilesResolves(i)) /\ UNCHANGED notEd
  \/ (\E i \in 1..Len(ops) : SetNaclFilesResolves(i)) /\ UNCHANGED notEd
  \/ (\E i \in 1..Len(ops) : ValidationResolves(i)) /\ UNCHANGED notEd
  \/ EdElements /\ UNCHANGED notEd
  \/ EdErrors /\ UNCHANGED notEd

SpecEd == EdInit /\ [][EdNext]_vars

\* ------------------------------------------------------------------------
\* Properties of the editor workspace
\* ------------------------------------------------------------------------
\* C3: once awaitAllUpdates resolves with the queue drained, the files of the
\* workspace and their buffers are those obtained by applying the
\* setNaclFiles and removeNaclFiles calls one at a time in call order.
C3_CallOrder ==
  (/\ resolution # NoResolution
   /\ resolution.awaited
   /\ resolution.allApplied
   /\ ~resolution.pending)
  => resolution.inCallOrder

\* C4: at most one aggregated set operation is in flight: no drain is
\* triggered while an earlier one has not finished.
drainsInFlight == {i \in 1..Len(ops) : ops[i].kind = "drain" /\ ops[i].status # "finished"}

C4_OneDrainInFlight == Cardinality(drainsInFlight) <= 1

C4_Witness ==
  /\ \E i \in drainsInFlight : ops[i].status = "running"
  /\ hasPendingUpdates(pendingSets, pendingDeletes)
  /\ calls >= 2

\* C5: at most one operation given to runOperationWithWorkspace executes at
\* a time, also when several callers waited on the same running operation.
running == {i \in 1..Len(ops) : ops[i].status = "running"}

C5_OneOperationAtATime == Cardinality(running) <= 1

C5_Witness ==
  /\ running # {}
  /\ \E j \in 1..Len(ops) : ops[j].status = "waiting" /\ ops[j].wakeable

\* C6: a promise returned by setNaclFiles, removeNaclFiles or awaitAllUpdates
\* resolves only when pendingSets and pendingDeletes are empty and every edit
\* enqueued before has been applied to the workspace.
C6_ResolvedWhenDrained ==
  resolution # NoResolution => (~resolution.pending /\ resolution.allApplied)

\* C7: a read of the elements getter or of errors() made while a batch is
\* applied returns what it would have returned before the batch or what it
\* returns after it, never a state in between.
C7_NoTornRead == tornReads = NoReads

\* C8: when setNaclFiles was called several times for a filename before the
\* drain, workspace.setNaclFiles gets one entry for it, with the buffer of
\* the last call, and that buffer is the one the file holds afterwards.
C8_LastWriteWins ==
  (applied # Undefined /\ applied.call = "setNaclFiles") =>
    /\ applied.naclFiles = [f \in DOMAIN applied.written |-> applied.written[f].buffer]
    /\ \A f \in DOMAIN applied.written : files[f] = applied.written[f].buffer

C8_Witness ==
  /\ applied # Undefined
  /\ applied.call = "setNaclFiles"
  /\ \E f \in DOMAIN applied.written :
       applied.written[f].earlier \ {applied.written[f].buffer} # {}

\* C27: a drain step swaps the pending queues for empty ones before its first
\* await, applies all the deletes it captured through removeNaclFiles before
\* any set it captured through setNaclFiles, and calls neither for an empty
\* captured set.
filesOf(edits, kind) == {e.filename : e \in {x \in edits : x.kind = kind}}
drainAt(i, pc) ==
  ops[i].kind = "drain" /\ ops[i].status = "running" /\ ops[i].pc = pc

\* what is pending is what was enqueued since the last capture, and what a
\* drain holds at an await is what it captured and has not applied yet
C27_Captured ==
  /\ pendingDeletes = filesOf(queued, "remove")
  /\ DOMAIN pendingSets = filesOf(queued, "set")
  /\ \A i \in 1..Len(ops) :
       /\ drainAt(i, "removeNaclFiles") =>
            /\ ops[i].opDeletes = filesOf(taken, "remove")
            /\ DOMAIN ops[i].opNaclFiles = filesOf(taken, "set")
       /\ drainAt(i, "setNaclFiles") =>
            /\ filesOf(taken, "remove") = {}
            /\ DOMAIN ops[i].opNaclFiles = filesOf(taken, "set")
       /\ drainAt(i, "getValidationErrors") => taken = {}

C27_DrainStep ==
  /\ C27_Captured'
  /\ (applied' # Undefined /\ applied'.call = "removeNaclFiles") =>
       /\ applied'.names # {}
       /\ \E i \in 1..Len(ops) :
            drainAt(i, "removeNaclFiles") /\ applied'.names = ops[i].opDeletes
  /\ (applied' # Undefined /\ applied'.call = "setNaclFiles") =>
       /\ DOMAIN applied'.naclFiles # {}
       /\ \E i \in 1..Len(ops) :
            drainAt(i, "setNaclFiles") /\ applied'.naclFiles = ops[i].opNaclFiles

C27_DeletesBeforeSets == [][C27_DrainStep]_vars

\* the drain captured deletes and sets together, has applied the deletes and
\* waits for setNaclFiles
C27_Witness ==
  /\ applied # Undefined
  /\ applied.call = "removeNaclFiles"
  /\ \E i \in 1..Len(ops) :
       /\ drainAt(i, "setNaclFiles")
       /\ ops[i].opDeletes # {}
       /\ DOMAIN ops[i].opNaclFiles # {}

\* no call of runOperationWithWorkspace is waiting, running or about to
\* release runningWorkspaceOperation: only a new call can make a step
quiescent == ops = <<>>

\* C31: every edit enqueued is eventually applied, and runningSetOperation is
\* undefined again once the queue is empty and no drain is running. With
\* every workspace call resolved and no operation left to run, no enqueued
\* file is still waiting for workspace.setNaclFiles / removeNaclFiles and
\* runningSetOperation is undefined.
C31_EveryEditApplied ==
  quiescent =>
    /\ queued \cup taken = {}
    /\ ~hasPendingUpdates(pendingSets, pendingDeletes)
    /\ runningSetOperation = Undefined

\* the same for the edits alone, where no call was made without a file
C31_EditsAppliedWhenIdle ==
  (quiescent /\ runningSetOperation = Undefined) =>
    /\ queued \cup taken = {}
    /\ ~hasPendingUpdates(pendingSets, pendingDeletes)

\* ------------------------------------------------------------------------
\* EditorWorkspace: operations that reject (lines 336-349)
\* ------------------------------------------------------------------------
PromiseRejected == [promise |-> "rejected"]

\* the operation of a caller rejects
UserOperationRejects(i) ==
  /\ ops[i].kind = "user" /\ ops[i].status = "running"
  /\ ops' = [ops EXCEPT ![i].status = "rejected"]
  /\ NoResolutionNow /\ NoCallNow /\ NoBatchEndNow
  /\ UNCHANGED <<wsVars, pendingSets, pendingDeletes, runningSetOperation,
                 runningWorkspaceOperation, wsErrors, calls, expected, queued, taken,
                 lastWritten, batch>>

\* lines 214, 218, 221: the workspace call the drain awaits rejects, and with
\* it runAggregatedSetOperation and the promise runningSetOperation holds
WorkspaceCallRejects(i) ==
  /\ ops[i].kind = "drain" /\ ops[i].status = "running"
  /\ ops' = [ops EXCEPT ![i].status = "rejected"]
  /\ runningSetOperation' = PromiseRejected
  /\ NoResolutionNow /\ NoCallNow /\ NoBatchEndNow
  /\ UNCHANGED <<wsVars, pendingSets, pendingDeletes, runningWorkspaceOperation,
                 wsErrors, calls, expected, queued, taken, lastWritten, batch>>

\* lines 336-339: `await operationPromise` throws, the assignment of line 338
\* is not reached and the field keeps the promise of waitForOperation, which
\* has rejected
waitForOperationThrows(rwo) == PromiseRejected

WaitForOperationThrows(i) ==
  /\ ops[i].status = "rejected"
  /\ runningWorkspaceOperation' = waitForOperationThrows(runningWorkspaceOperation)
  /\ ops' = RemoveAt(ops, i)
  /\ NoResolutionNow /\ NoCallNow /\ NoBatchEndNow
  /\ UNCHANGED <<wsVars, pendingSets, pendingDeletes, runningSetOperation, wsErrors,
                 calls, expected, queued, taken, lastWritten, batch>>

\* lines 342-345: `await this.runningWorkspaceOperation` throws in a call
\* that waits, which rejects without running its operation; the promise of a
\* drain is the one runningSetOperation holds
AwaitThrows(i) ==
  /\ ops[i].status = "waiting"
  /\ runningWorkspaceOperation = PromiseRejected
  /\ ops' = RemoveAt(ops, i)
  /\ runningSetOperation' = IF ops[i].kind = "drain" THEN PromiseRejected
                            ELSE runningSetOperation
  /\ NoResolutionNow /\ NoCallNow /\ NoBatchEndNow
  /\ UNCHANGED <<wsVars, pendingSets, pendingDeletes, runningWorkspaceOperation,
                 wsErrors, calls, expected, queued, taken, lastWritten, batch>>

EdFailNext ==
  \/ (\E naclFiles \in EdNaclFileArgs : EdSetNaclFiles(naclFiles)) /\ UNCHANGED notEd
  \/ (\E names \in EdNameArgs : EdRemoveNaclFiles(names)) /\ UNCHANGED notEd
  \/ RunOperationWithWorkspace /\ UNCHANGED notEd
  \/ (\E i \in 1..Len(ops) : WaiterWakes(i)) /\ UNCHANGED notEd
  \/ (\E i \in 1..Len(ops) : UserOperationResolves(i)) /\ UNCHANGED notEd
  \/ (\E i \in 1..Len(ops) : UserOperationRejects(i)) /\ UNCHANGED notEd
  \/ (\E i \in 1..Len(ops) : WaitForOperationContinues(i)) /\ UNCHANGED notEd
  \/ (\E i \in 1..Len(ops) : WaitForOperationThrows(i)) /\ UNCHANGED notEd
  \/ (\E i \in 1..Len(ops) : AwaitThrows(i)) /\ UNCHANGED notEd
  \/ (\E i \in 1..Len(ops) : RemoveNaclFilesResolves(i)) /\ UNCHANGED notEd
  \/ (\E i \in 1..Len(ops) : SetNaclFilesResolves(i)) /\ UNCHANGED notEd
  \/ (\E i \in 1..Len(ops) : WorkspaceCallRejects(i)) /\ UNCHANGED notEd

SpecEdFail == EdInit /\ [][EdFailNext]_vars

\* C32: a failed workspace operation does not wedge the editor workspace:
\* once an operation run through runOperationWithWorkspace (the aggregated
\* set operation included) has rejected, runningWorkspaceOperation and
\* runningSetOperation are released, so that later calls run their operation
\* and later edits are drained.
C32_ReleasedAfterRejection ==
  quiescent =>
    /\ runningWorkspaceOperation = Undefined
    /\ runningSetOperation # PromiseRejected

\* the editor over a workspace whose state holds hidden values of the type:
\* a file that defines the value a of the type gives a merge error
EdHiddenInit ==
  /\ files \in EdInitFiles
  /\ currentEnv = "env1"
  /\ stateStore = [e \in Envs |->
                     IF e = "env1"
                     THEN {StateElem(TypeName, {"a", "h"}, FALSE, {"a", "h"})}
                     ELSE {}]
  /\ workspaceState = Undefined
  /\ lastOp = LastOp("load")
  /\ LifecycleLoaded
  /\ RecencyUnused
  /\ NotCloned
  /\ NothingRemoved
  /\ ListenerCreated
  /\ ConvertersLoaded
  /\ NothingWalked /\ NoCommandRun
  /\ EditorConstructed
  /\ expected = files

SpecEdHidden == EdHiddenInit /\ [][EdNext]_vars

\* C30: after each drained batch with a cached error set the new error set
\* takes its parse and merge errors from workspace.errors(false) evaluated
\* after the batch, and validation is run again only on the elements the
\* files of the batch define, on those that had validation errors before the
\* batch and on those the batch changed; while no error set is cached a batch
\* validates nothing.
namesDefinedIn(fs, names) ==
  {getFullName(e.elemID) :
     e \in UNION {parse(fs[f]) : f \in {g \in names : fs[g] # NoFile}}}

validatedAgain == applied' # Undefined /\ applied'.call = "validateElements"

C30_Step ==
  /\ validatedAgain =>
       /\ wsErrors # Undefined
       /\ wsErrors'.parse = workspaceErrors(workspaceState', FALSE).parse
       /\ wsErrors'.merge = workspaceState'.mergeErrors
       /\ \E i \in 1..Len(ops) :
            /\ drainAt(i, "getValidationErrors")
            /\ applied'.names \subseteq
                 namesDefinedIn(files', ops[i].opDeletes \cup DOMAIN ops[i].opNaclFiles)
                   \cup {<<e.elemID.top>> : e \in wsErrors.validation}
                   \cup {getFullName(getChangeElement(c).elemID) :
                           c \in Range(ops[i].changes)}
  /\ (wsErrors = Undefined /\ ops' # ops) =>
       /\ wsErrors' = Undefined
       /\ ~validatedAgain
       /\ \A i \in 1..Len(ops') : ~(drainAt(i, "getValidationErrors"))'

ValInitFiles ==
  {[f \in FileNames |-> IF f = CommonFile THEN {Block(InstName, {"a"})}
                        ELSE {Block(TypeName, {"a"})}]}

ValBuffers == {{Block(TypeName, {"a"})}, {Block(InstName, {"a"})}}

\* nothing is pending and no drain is in flight
drained ==
  /\ ~hasPendingUpdates(pendingSets, pendingDeletes)
  /\ drainsInFlight = {}

\* the top level elements only the file f defines
definedOnlyIn(fs, f) ==
  {e.elemID : e \in {x \in parse(fs[f]) :
                       \A g \in FileNames \ {f} :
                          fs[g] = NoFile \/ \A y \in parse(fs[g]) : y.elemID # x.elemID}}

\* the values of the other files that refer to an element only f defines
referencesInto(fs, f) ==
  UNION {UNION {{r \in referenceExpressions(e) : r.elemId \in definedOnlyIn(fs, f)} :
                  e \in parse(fs[g])} :
           g \in {h \in FileNames \ {f} : fs[h] # NoFile}}

Removal(f, status) ==
  [filename |-> f, buffer |-> files[f], status |-> status, drainedBetween |-> FALSE,
   validation |-> wsErrors.validation,
   unresolved |-> {UnresolvedReferenceValidationError(r.elemPath, r.elemId) :
                     r \in referencesInto(files, f)}]

\* removeNaclFiles(f) of a caller, with the errors computed before
ValRemoveNaclFiles(f) ==
  /\ wsErrors # Undefined
  /\ EdRemoveNaclFiles(<<f>>)
  /\ removal' =
       IF removal # Undefined THEN [removal EXCEPT !.status = "other"]
       ELSE IF drained /\ files[f] # NoFile /\ referencesInto(files, f) # {}
       THEN Removal(f, "removed")
       ELSE removal

\* setNaclFiles({filename: f, buffer: b}) of a caller, with the errors
\* computed before
ValSetNaclFiles(f, b) ==
  /\ wsErrors # Undefined
  /\ EdSetNaclFiles(<<NaclFile(f, b)>>)
  /\ removal' =
       IF removal = Undefined THEN removal
       ELSE IF /\ removal.status = "removed"
               /\ f = removal.filename
               /\ b = removal.buffer
       THEN [removal EXCEPT !.status = "readded", !.drainedBetween = drained]
       ELSE [removal EXCEPT !.status = "other"]

\* lines 327-330: validate()
EdValidate ==
  /\ Elements
  /\ wsErrors' = workspaceErrors(workspaceState', TRUE)
  /\ NoResolutionNow /\ NoCallNow /\ NoBatchEndNow
  /\ UNCHANGED <<pendingSets, pendingDeletes, runningSetOperation,
                 runningWorkspaceOperation, ops, calls, expected, queued, taken,
                 lastWritten, batch>>

ValInit ==
  /\ files \in ValInitFiles
  /\ currentEnv = "env1"
  /\ stateStore = [e \in Envs |-> {}]
  /\ workspaceState = Undefined
  /\ lastOp = LastOp("load")
  /\ LifecycleLoaded
  /\ RecencyUnused
  /\ NotCloned
  /\ NothingRemoved
  /\ ListenerCreated
  /\ ConvertersLoaded
  /\ NothingWalked /\ NoCommandRun
  /\ EditorConstructed
  /\ expected = files

notVal == <<lcVars, rcVars, clVars, dgVars, psVars, tfVars,
  cliVars>>

ValNext ==
  \/ EdErrors /\ UNCHANGED <<notVal, valVars>>
  \/ EdValidate /\ UNCHANGED <<notVal, valVars>>
  \/ (\E f \in FileNames, b \in ValBuffers : ValSetNaclFiles(f, b)) /\ UNCHANGED notVal
  \/ (\E f \in FileNames : ValRemoveNaclFiles(f)) /\ UNCHANGED notVal
  \/ RunOperationWithWorkspace /\ UNCHANGED <<notVal, valVars>>
  \/ (\E i \in 1..Len(ops) : WaiterWakes(i)) /\ UNCHANGED <<notVal, valVars>>
  \/ (\E i \in 1..Len(ops) : UserOperationResolves(i)) /\ UNCHANGED <<notVal, valVars>>
  \/ (\E i \in 1..Len(ops) : WaitForOperationContinues(i)) /\ UNCHANGED <<notVal, valVars>>
  \/ (\E i \in 1..Len(ops) : RemoveNaclFilesResolves(i)) /\ UNCHANGED <<notVal, valVars>>
  \/ (\E i \in 1..Len(ops) : SetNaclFilesResolves(i)) /\ UNCHANGED <<notVal, valVars>>
  \/ (\E i \in 1..Len(ops) : ValidationResolves(i)) /\ UNCHANGED <<notVal, valVars>>

SpecVal == ValInit /\ [][ValNext]_vars

\* what validate() would return now
fullValidation ==
  workspaceErrors(getWorkspaceState(workspaceState, files, stateView, naclFilesSource),
                  TRUE).validation

removedThenReAdded ==
  /\ removal.status = "removed" =>
       /\ removal.unresolved # {}
       /\ removal.unresolved \subseteq wsErrors.validation
  /\ removal.status = "readded" =>
       /\ removal.unresolved \cap wsErrors.validation = {}
       /\ wsErrors.validation = removal.validation

\* C15: with the errors computed, once the only file that defines a
\* referenced element is removed, the validation errors hold an unresolved
\* reference at each referring value, naming the removed element; once the
\* file is set again with the same buffer, these errors are gone and the
\* validation errors are those held before the removal.
C15_RemoveThenReAdd == (removal # Undefined /\ drained) => removedThenReAdded

\* the same, where the removal was drained before the file was set again
C15_WhenDrainedBetween ==
  (/\ removal # Undefined
   /\ drained
   /\ removal.status = "readded" => removal.drainedBetween) => removedThenReAdded

\* C16: with the errors computed before the edits, whenever the batches are
\* drained the validation errors of errors() are, as a set, those a full
\* validation of all the elements of the workspace returns.
C16_IncrementalEqualsFullValidation ==
  (wsErrors # Undefined /\ drained) => wsErrors.validation = fullValidation

\* ------------------------------------------------------------------------
\* the VS Code extension: onTextChangeEvent and the listener created by
\* createReportErrorsEventListener
\* ------------------------------------------------------------------------
DIAG_IDLE_PERIOD == 500

\* the clock advances by TickMs, MaxTicks times
TickMs == 250
MaxTicks == 4
\* text change events delivered to the extension
MaxListenerCalls == 2

\* the documents edited, and path.extname(fileName) === FILE_EXTENSION
DocNames == {Env1File, "notes.txt"}
isNaclFile(doc) == doc \in FileNames
\* event.document.getText(): the type the instance of a.nacl refers to, or nothing
DocTexts == {{}, {Block(TypeName, {"a"})}}

\* diagnostics.getDiagnostics(workspace): the errors of the editor workspace
getDiagnostics(errs) == [merge |-> errs.merge, validation |-> errs.validation]

\* the promise awaited is settled when awaitAllUpdates is called
awaitAllUpdatesAtOnce(rso) == TRUE

\* lines 332-334: await this.runningSetOperation
awaitAllUpdatesResolved(rso) == rso # PromisePending

\* one invocation of the debounced callback, at its first await
Report ==
  [pc |-> "awaitAllUpdates",
   wakeable |-> awaitAllUpdatesResolved(runningSetOperation),
   waited |-> runningSetOperation = PromisePending,
   calls |-> calls, newDiag |-> Undefined, allApplied |-> FALSE, laterCalls |-> FALSE]

\* a step of the extension that is not a step of the editor workspace
NoEditorStep ==
  /\ NoResolutionNow /\ NoCallNow /\ NoBatchEndNow
  /\ UNCHANGED <<wsVars, edVars, calls, expected, queued, taken, lastWritten, batch>>

\* the promise of the drain resolves: the callbacks awaiting it may go on
PromisesSettle ==
  reports' =
    IF runningSetOperation = PromisePending /\ runningSetOperation' # PromisePending
    THEN [i \in 1..Len(reports) |->
            IF reports[i].pc = "awaitAllUpdates"
            THEN [reports[i] EXCEPT !.wakeable = TRUE] ELSE reports[i]]
    ELSE reports

\* the debounced function is called: the idle period starts again
ListenerCalled ==
  /\ debounce' = [pending |-> TRUE, lastCallTime |-> now]
  /\ listenerCalls' =
       [count |-> listenerCalls.count + 1,
        withinIdle |-> /\ listenerCalls.withinIdle
                       /\ \/ listenerCalls.count = 0
                          \/ now - debounce.lastCallTime < DIAG_IDLE_PERIOD]

\* lines 46-54 and the listener: a text change event of the editor
TextChanged(doc, text) ==
  /\ listenerCalls.count < MaxListenerCalls
  /\ now + DIAG_IDLE_PERIOD <= MaxTicks * TickMs
  /\ IF isNaclFile(doc)
     THEN EdSetNaclFiles(<<NaclFile(doc, text)>>)
     ELSE NoEditorStep /\ UNCHANGED wsErrors
  /\ ListenerCalled
  /\ UNCHANGED <<reports, diagCollection>>

\* the callback is invoked as soon as the timer is set
TimerExpiresEarly ==
  /\ debounce.pending
  /\ debounce' = [debounce EXCEPT !.pending = FALSE]
  /\ reports' = Append(reports, Report)
  /\ NoEditorStep
  /\ UNCHANGED <<wsErrors, diagCollection, listenerCalls>>

\* the idle period is over: the debounced callback is invoked, lines 32-33
TimerExpires ==
  /\ debounce.pending
  /\ now - debounce.lastCallTime >= DIAG_IDLE_PERIOD
  /\ debounce' = [debounce EXCEPT !.pending = FALSE]
  /\ reports' = Append(reports, Report)
  /\ NoEditorStep
  /\ UNCHANGED <<wsErrors, diagCollection, listenerCalls>>

\* lines 34-37: awaitAllUpdates has resolved, the diagnostics are computed
ReportComputes(i) ==
  /\ reports[i].pc = "awaitAllUpdates"
  /\ reports[i].wakeable
  /\ EdErrors
  /\ reports' = [reports EXCEPT
       ![i].pc = "set",
       ![i].newDiag = getDiagnostics(wsErrors'),
       ![i].laterCalls = (calls # reports[i].calls),
       ![i].allApplied = /\ ~hasPendingUpdates(pendingSets, pendingDeletes)
                         /\ queued \cup taken = {}
                         /\ files = expected]
  /\ UNCHANGED <<debounce, diagCollection, listenerCalls>>

\* line 38: diagCollection.set(newDiag)
ReportSets(i) ==
  /\ reports[i].pc = "set"
  /\ diagCollection' =
       [sets |-> diagCollection.sets + 1, diag |-> reports[i].newDiag, at |-> now,
        lastCallTime |-> debounce.lastCallTime, waited |-> reports[i].waited,
        allApplied |-> reports[i].allApplied, laterCalls |-> reports[i].laterCalls]
  /\ reports' = RemoveAt(reports, i)
  /\ NoEditorStep
  /\ UNCHANGED <<wsErrors, debounce, listenerCalls>>

Tick ==
  /\ now < MaxTicks * TickMs
  /\ now' = now + TickMs
  /\ NoEditorStep
  /\ UNCHANGED <<wsErrors, updateDates, recency, dgVars>>

DiagInit ==
  /\ files \in ValInitFiles
  /\ currentEnv = "env1"
  /\ stateStore = [e \in Envs |-> {}]
  /\ workspaceState = Undefined
  /\ lastOp = LastOp("load")
  /\ LifecycleLoaded
  /\ RecencyUnused
  /\ NotCloned
  /\ NothingRemoved
  /\ ListenerCreated
  /\ ConvertersLoaded
  /\ NothingWalked /\ NoCommandRun
  /\ EditorConstructed
  /\ expected = files

notDiag == <<lcVars, clVars, valVars, psVars, tfVars,
  cliVars>>
listenerVars == <<debounce, diagCollection, listenerCalls>>

\* the steps the event loop takes by itself
ClockTicks == Tick /\ UNCHANGED notDiag
TimerFires == TimerExpires /\ UNCHANGED <<notDiag, rcVars>>
CallbackComputes ==
  (\E i \in 1..Len(reports) : ReportComputes(i)) /\ UNCHANGED <<notDiag, rcVars>>
CallbackSets ==
  (\E i \in 1..Len(reports) : ReportSets(i)) /\ UNCHANGED <<notDiag, rcVars>>
DrainWakes ==
  (\E i \in 1..Len(ops) : WaiterWakes(i))
    /\ PromisesSettle /\ UNCHANGED <<notDiag, rcVars, listenerVars>>
OperationOver ==
  (\E i \in 1..Len(ops) : WaitForOperationContinues(i))
    /\ PromisesSettle /\ UNCHANGED <<notDiag, rcVars, listenerVars>>
FilesSet ==
  (\E i \in 1..Len(ops) : SetNaclFilesResolves(i))
    /\ PromisesSettle /\ UNCHANGED <<notDiag, rcVars, listenerVars>>
ErrorsReplaced ==
  (\E i \in 1..Len(ops) : ValidationResolves(i))
    /\ PromisesSettle /\ UNCHANGED <<notDiag, rcVars, listenerVars>>

DiagNext ==
  \/ (\E doc \in DocNames, text \in DocTexts : TextChanged(doc, text))
       /\ UNCHANGED <<notDiag, rcVars>>
  \/ ClockTicks
  \/ TimerFires
  \/ CallbackComputes
  \/ CallbackSets
  \/ DrainWakes
  \/ OperationOver
  \/ FilesSet
  \/ ErrorsReplaced

\* workspace.setNaclFiles of a drain is in flight
settingFiles == \E i \in 1..Len(ops) : ops[i].status = "running" /\ ops[i].pc = "setNaclFiles"

\* a callback whose awaitAllUpdates resolved can compute the diagnostics
canCompute ==
  /\ \E i \in 1..Len(reports) : reports[i].pc = "awaitAllUpdates" /\ reports[i].wakeable
  /\ batch # Undefined =>
       Cardinality(batch.reads.elements) + Cardinality(batch.reads.errors)
         < MaxReadsPerBatch

\* the event loop runs the timers and the promise continuations that are
\* ready: time passes, and no call of the workspace and no callback that can
\* go on stays where it is for ever
SpecDiag ==
  /\ DiagInit /\ [][DiagNext]_vars
  /\ WF_vars(ClockTicks) /\ WF_vars(TimerFires) /\ WF_vars(CallbackSets)
  /\ WF_vars(DrainWakes) /\ WF_vars(OperationOver) /\ WF_vars(ErrorsReplaced)
  /\ []<>(~settingFiles)
  /\ []<>(~canCompute)

\* the diagnostics of the files as the calls made so far leave them
diagnosticsExpected ==
  getDiagnostics(workspaceErrors(fullBuild(expected, stateView, naclFilesSource), TRUE))

\* C13: while every call of the listener came less than 500 ms after the one
\* before, the diagnostics are set at most once, not before 500 ms have
\* passed since the last call, and with the diagnostics of the last buffer;
\* and once the listener was called the diagnostics are set in the end.
C13_Published ==
  listenerCalls.withinIdle =>
    /\ diagCollection.sets <= 1
    /\ diagCollection.sets = 1 =>
         /\ diagCollection.at >= debounce.lastCallTime + DIAG_IDLE_PERIOD
         /\ diagCollection.diag = diagnosticsExpected

C13_OnePublish ==
  /\ []C13_Published
  /\ (listenerCalls.count > 0) ~> (diagCollection.sets > 0)

C13_Witness ==
  /\ listenerCalls.withinIdle
  /\ listenerCalls.count >= 2
  /\ calls >= 2
  /\ diagCollection.sets = 1
  /\ files # [f \in FileNames |-> IF f = CommonFile THEN {Block(InstName, {"a"})}
                                ELSE {Block(TypeName, {"a"})}]

MaxItems == 2
\* content tokens of one multi-line string
MaxTokens == 2

\* a text is the sequence of its characters; the texts of content tokens:
\* empty, without a newline, a line, and two lines
Newline == "\n"
Texts ==
  {<<>>, <<"a">>, <<Newline>>, <<"a", Newline>>, <<"a", Newline, "a", Newline>>}
ParsedFilenames == {"a.nacl", "b.nacl"}

\* a token of the lexer: type, value, text and offset (the line and the
\* column of a token are left out: no converter decides on them)
LexerToken(type, value, text, offset) ==
  [type |-> type, value |-> value, text |-> text, offset |-> offset]

isLexerToken(token) == {"value", "text", "offset"} \subseteq DOMAIN token

NearleyError(token, offset, message) ==
  [token |-> token, offset |-> offset, message |-> message]

Returned(value) == [returned |-> value]
Thrown(error) == [thrown |-> error]
isThrown(result) == "thrown" \in DOMAIN result

createSourceRange(st, et, filename) ==
  [filename |-> filename,
   start |-> IF isLexerToken(st) THEN [byte |-> st.offset] ELSE st.source.start,
   end |-> IF isLexerToken(et) THEN [byte |-> et.offset + Len(et.text)]
           ELSE et.source.end]

\* an object literal `{}`: its own properties in insertion order, as pairs
\* of key and value, above the members it inherits from Object.prototype
EmptyObject == <<>>
constructorKey == <<"c", "o", "n", "s", "t", "r", "u", "c", "t", "o", "r">>
ObjectPrototypeKeys == {constructorKey}
InheritedMember(k) == [inherited |-> k]

hasOwnProperty(obj, k) == \E i \in 1..Len(obj) : obj[i][1] = k

\* obj[k]
getProperty(obj, k) ==
  IF hasOwnProperty(obj, k)
  THEN obj[CHOOSE i \in 1..Len(obj) : obj[i][1] = k][2]
  ELSE IF k \in ObjectPrototypeKeys THEN InheritedMember(k) ELSE Undefined

\* obj[k] = v
setProperty(obj, k, v) ==
  IF hasOwnProperty(obj, k)
  THEN [i \in 1..Len(obj) |-> IF obj[i][1] = k THEN <<k, v>> ELSE obj[i]]
  ELSE Append(obj, <<k, v>>)

\* _.values(obj)
objectOwnValues(obj) == [i \in 1..Len(obj) |-> obj[i][2]]

\* JSON.parse of a quoted string without escapes
JSONparse(text) == SubSeq(text, 2, Len(text) - 1)

\* text.split(sep)
RECURSIVE split(_, _)
split(text, sep) ==
  IF \A i \in 1..Len(text) : text[i] # sep THEN <<text>>
  ELSE LET at == CHOOSE i \in 1..Len(text) :
                   text[i] = sep /\ \A j \in 1..(i - 1) : text[j] # sep
       IN <<SubSeq(text, 1, at - 1)>> \o split(SubSeq(text, at + 1, Len(text)), sep)

convertBoolean(bool, filename) ==
  [type |-> "literal", value |-> (bool.text = <<"t", "r", "u", "e">>),
   expressions |-> <<>>, source |-> createSourceRange(bool, bool, filename)]

convertAttrKey(key, filename) ==
  [type |-> "literal",
   value |-> IF key.type = "string" THEN JSONparse(key.text) ELSE key.text,
   expressions |-> <<>>, source |-> createSourceRange(key, key, filename)]

convertAttr(key, value, filename) ==
  [type |-> "map", expressions |-> <<convertAttrKey(key, filename), value>>,
   value |-> value, source |-> createSourceRange(key, value, filename)]

convertReference(reference, filename) ==
  [type |-> "reference", value |-> split(reference.value, "."),
   expressions |-> <<>>,
   source |-> createSourceRange(reference, reference, filename)]

\* the forEach of convertBlockItems from item i on: lines 229-244
RECURSIVE convertBlockItemsFrom(_, _, _, _)
convertBlockItemsFrom(blockItems, i, attrs, blocks) ==
  IF i > Len(blockItems) THEN Returned([attrs |-> attrs, blocks |-> blocks])
  ELSE
    LET item == blockItems[i]
        isAttr == "type" \in DOMAIN item /\ item.type = "map"
        key == item.expressions[1]
        value == item.expressions[2]
    IN IF isAttr /\ getProperty(attrs, key.value) # Undefined
       THEN Thrown(NearleyError(key, key.source.start.byte, "Attribute redefined"))
       ELSE convertBlockItemsFrom(blockItems, i + 1,
              IF isAttr
              THEN setProperty(attrs, key.value,
                               [expressions |-> <<value>>, source |-> item.source])
              ELSE attrs,
              IF "blocks" \in DOMAIN item THEN Append(blocks, item) ELSE blocks)

convertBlockItems(blockItems) ==
  convertBlockItemsFrom(blockItems, 1, EmptyObject, <<>>)

\* the forEach of convertObject from attribute i on: lines 290-297
RECURSIVE convertObjectFrom(_, _, _)
convertObjectFrom(attrs, i, res) ==
  IF i > Len(attrs) THEN Returned(res)
  ELSE
    LET key == attrs[i].expressions[1]
    IN IF getProperty(res, key.value) # Undefined
       THEN Thrown(NearleyError(key, key.source.start.byte, "Attribute redefined"))
       ELSE convertObjectFrom(attrs, i + 1,
                              setProperty(res, key.value, attrs[i].expressions))

convertObject(ob, attrs, cb, filename) ==
  LET res == convertObjectFrom(attrs, 1, EmptyObject)
  IN IF isThrown(res) THEN res
     ELSE Returned([type |-> "map",
                    expressions |-> Flatten(objectOwnValues(res.returned)),
                    source |-> createSourceRange(ob, cb, filename)])

convertMultilineString(mlStart, contentTokens, mlEnd, filename) ==
  Returned(
    [type |-> "template",
     expressions |->
       [index \in 1..Len(contentTokens) |->
          LET t == contentTokens[index]
              value == IF index = Len(contentTokens)
                       THEN SubSeq(t.text, 1, Len(t.text) - 1)
                       ELSE t.text
          IN IF t.type = "reference" THEN convertReference(t, filename)
             ELSE [type |-> "literal", value |-> value, expressions |-> <<>>,
                   source |-> createSourceRange(t, t, filename)]],
     source |-> createSourceRange(mlStart, mlEnd, filename)])

convertWildcardAlways(wildcard, allow, filename) ==
  Returned([type |-> "dynamic", expressions |-> <<>>,
            source |-> createSourceRange(wildcard, wildcard, filename)])

convertWildcard(wildcard, allow, filename) ==
  LET exp == [type |-> "dynamic", expressions |-> <<>>,
              source |-> createSourceRange(wildcard, wildcard, filename)]
  IN IF allow THEN Returned(exp)
     ELSE Thrown(NearleyError(exp, wildcard.offset, "Invalid wildcard token"))

\* what the lexer and the rules beneath hand to the converters: the keys of
\* attributes, an attribute `key = true`, an empty nested block, the tokens
\* of a multi-line string
KeyKinds == {"a", "b", "quoted a", "constructor"}
ItemKinds == KeyKinds \cup {"block"}

KeyToken(kind, offset) ==
  IF kind = "quoted a"
  THEN LexerToken("string", <<"\"", "a", "\"">>, <<"\"", "a", "\"">>, offset)
  ELSE LET text == IF kind = "constructor" THEN constructorKey ELSE <<kind>>
       IN LexerToken("word", text, text, offset)

BoolToken(offset) ==
  LexerToken("boolean", <<"t", "r", "u", "e">>, <<"t", "r", "u", "e">>, offset)

Item(kind, offset, filename) ==
  IF kind = "block"
  THEN [attrs |-> EmptyObject, blocks |-> <<>>, type |-> "annotations",
        labels |-> <<>>,
        source |-> [filename |-> filename, start |-> [byte |-> offset],
                    end |-> [byte |-> offset + 14]]]
  ELSE LET key == KeyToken(kind, offset)
       IN convertAttr(key, convertBoolean(BoolToken(offset + Len(key.text) + 3),
                                          filename), filename)

\* the items of the kinds given, one per line from the offset on
RECURSIVE Items(_, _, _)
Items(kinds, offset, filename) ==
  IF kinds = <<>> THEN <<>>
  ELSE LET item == Item(Head(kinds), offset, filename)
       IN <<item>> \o Items(Tail(kinds), item.source.end.byte + 1, filename)

ReferenceText == <<"$", "{", "x", ".", "y", "}">>
TokenKinds == Texts \cup {ReferenceText}

ContentToken(text, offset) ==
  IF text = ReferenceText
  THEN LexerToken("reference", <<"x", ".", "y">>, text, offset)
  ELSE LexerToken("content", text, text, offset)

RECURSIVE ContentTokens(_, _)
ContentTokens(texts, offset) ==
  IF texts = <<>> THEN <<>>
  ELSE <<ContentToken(Head(texts), offset)>>
         \o ContentTokens(Tail(texts), offset + Len(Head(texts)))

Converted(call, args, result) ==
  [call |-> call, args |-> args, recovery |-> session.recovery,
   result |-> result]

startParse(filename) ==
  /\ currentFilename' = filename
  /\ allowWildcard' = FALSE
  /\ session' = [started |-> TRUE, recovery |-> FALSE]
  /\ UNCHANGED converted

setErrorRecoveryMode ==
  /\ allowWildcard' = TRUE
  /\ session' = [session EXCEPT !.recovery = TRUE]
  /\ UNCHANGED <<currentFilename, converted>>

\* the grammar runs between startParse and the end of the parse
ConvertWildcard(offset) ==
  /\ session.started
  /\ LET wildcard == LexerToken("wildcard", <<"*">>, <<"*">>, offset)
     IN converted' = Converted("convertWildcard", wildcard,
                       convertWildcard(wildcard, allowWildcard, currentFilename))
  /\ UNCHANGED <<currentFilename, allowWildcard, session>>

ConvertBlockItems(kinds) ==
  /\ session.started
  /\ LET blockItems == Items(kinds, 0, currentFilename)
     IN converted' = Converted("convertBlockItems", blockItems,
                               convertBlockItems(blockItems))
  /\ UNCHANGED <<currentFilename, allowWildcard, session>>

ConvertObject(kinds) ==
  /\ session.started
  /\ LET attrs == Items(kinds, 1, currentFilename)
         last == IF attrs = <<>> THEN 1 ELSE attrs[Len(attrs)].source.end.byte + 1
     IN converted' = Converted("convertObject", attrs,
                       convertObject(LexerToken("ob", <<"{">>, <<"{">>, 0), attrs,
                                     LexerToken("cb", <<"}">>, <<"}">>, last),
                                     currentFilename))
  /\ UNCHANGED <<currentFilename, allowWildcard, session>>

ConvertMultilineString(texts) ==
  /\ session.started
  /\ LET mlStart == LexerToken("mlStart", <<"'", "'", "'", Newline>>,
                               <<"'", "'", "'", Newline>>, 0)
         contentTokens == ContentTokens(texts, 4)
         last == 4 + Len(Flatten(texts))
     IN converted' = Converted("convertMultilineString", contentTokens,
                       convertMultilineString(mlStart, contentTokens,
                         LexerToken("mlEnd", <<"'", "'", "'">>, <<"'", "'", "'">>, last),
                         currentFilename))
  /\ UNCHANGED <<currentFilename, allowWildcard, session>>

SeqsUpTo(S, n) == UNION {[1..k -> S] : k \in 0..n}

notParse == <<wsVars, edVars, histVars, lcVars, rcVars, clVars, valVars, dgVars,
              tfVars, cliVars>>

\* the parser runs on its own: the workspace is loaded without files
NoWorkspaceFiles ==
  /\ files = [f \in FileNames |-> NoFile]
  /\ currentEnv = "env1"
  /\ stateStore = [e \in Envs |-> {}]
  /\ workspaceState = Undefined
  /\ lastOp = [kind |-> "load", names |-> {}, changes |-> <<>>, merged |-> <<>>]
  /\ expected = EmptyMap

ParseInit ==
  /\ NoWorkspaceFiles /\ LifecycleLoaded /\ EditorConstructed /\ RecencyUnused
  /\ NotCloned /\ NothingRemoved /\ ListenerCreated
  /\ ConvertersLoaded /\ NothingWalked /\ NoCommandRun

ParseNext ==
  \/ (\E filename \in ParsedFilenames : startParse(filename)) /\ UNCHANGED notParse
  \/ setErrorRecoveryMode /\ UNCHANGED notParse
  \/ (\E offset \in {0, 5} : ConvertWildcard(offset)) /\ UNCHANGED notParse
  \/ (\E kinds \in SeqsUpTo(ItemKinds, MaxItems) : ConvertBlockItems(kinds))
       /\ UNCHANGED notParse
  \/ (\E kinds \in SeqsUpTo(KeyKinds, MaxItems) : ConvertObject(kinds))
       /\ UNCHANGED notParse
  \/ (\E texts \in SeqsUpTo(TokenKinds, MaxTokens) : ConvertMultilineString(texts))
       /\ UNCHANGED notParse

SpecParse == ParseInit /\ [][ParseNext]_vars

\* ------------------------------------------------------------------------
\* Properties of the converters
\* ------------------------------------------------------------------------
wasCalled(call) == converted # Undefined /\ converted.call = call

\* C21: convertWildcard returns a `dynamic` expression if and only if
\* setErrorRecoveryMode was called since the most recent startParse; otherwise
\* it throws 'Invalid wildcard token' at the offset of the wildcard.  The mode
\* is on exactly when setErrorRecoveryMode was called since the last
\* startParse, so every startParse begins with the mode off.
C21_WildcardOnlyInRecovery ==
  /\ allowWildcard <=> session.recovery
  /\ wasCalled("convertWildcard") =>
       LET wildcard == converted.args
           result == converted.result
       IN IF converted.recovery
          THEN /\ ~isThrown(result)
               /\ result.returned.type = "dynamic"
               /\ result.returned.source.start.byte = wildcard.offset
          ELSE /\ isThrown(result)
               /\ result.thrown.message = "Invalid wildcard token"
               /\ result.thrown.offset = wildcard.offset

\* a wildcard was accepted in recovery mode, and the next startParse has
\* switched the mode off again
C21_Witness ==
  /\ wasCalled("convertWildcard")
  /\ converted.recovery
  /\ ~isThrown(converted.result)
  /\ session.started
  /\ ~session.recovery
  /\ ~allowWildcard

isAttribute(item) == "type" \in DOMAIN item /\ item.type = "map"
keyOf(item) == item.expressions[1]
\* the attributes whose key an earlier attribute of the items has
secondOccurrences(items) ==
  {j \in 1..Len(items) :
     /\ isAttribute(items[j])
     /\ \E i \in 1..(j - 1) :
          isAttribute(items[i]) /\ keyOf(items[i]).value = keyOf(items[j]).value}
first(S) == CHOOSE j \in S : \A k \in S : j <= k

\* C22: convertBlockItems and convertObject throw 'Attribute redefined' if and
\* only if some attribute key occurs more than once among the items, and the
\* error is at the start byte of the second occurrence of that key; with
\* pairwise distinct keys every attribute is kept under its key.
C22_AttributeRedefined ==
  (wasCalled("convertBlockItems") \/ wasCalled("convertObject")) =>
    LET items == converted.args
        result == converted.result
        again == secondOccurrences(items)
    IN IF again = {}
       THEN /\ ~isThrown(result)
            /\ converted.call = "convertBlockItems" =>
                 \A i \in 1..Len(items) :
                   isAttribute(items[i]) =>
                     /\ hasOwnProperty(result.returned.attrs, keyOf(items[i]).value)
                     /\ getProperty(result.returned.attrs, keyOf(items[i]).value)
                          = [expressions |-> <<items[i].expressions[2]>>,
                             source |-> items[i].source]
            /\ converted.call = "convertObject" =>
                 result.returned.expressions
                   = Flatten([i \in 1..Len(items) |-> items[i].expressions])
       ELSE /\ isThrown(result)
            /\ result.thrown.message = "Attribute redefined"
            /\ result.thrown.offset = keyOf(items[first(again)]).source.start.byte

\* the same, for items none of which has a key that Object.prototype has
C22_WithoutInheritedKeys ==
  (/\ wasCalled("convertBlockItems") \/ wasCalled("convertObject")
   /\ \A i \in 1..Len(converted.args) :
        isAttribute(converted.args[i])
          => keyOf(converted.args[i]).value \notin ObjectPrototypeKeys)
    => C22_AttributeRedefined

tokenTexts(tokens) == Flatten([i \in 1..Len(tokens) |-> tokens[i].text])
\* the literals by their values, the references by the text of their token
rendered(tokens, expressions) ==
  Flatten([i \in 1..Len(tokens) |->
             IF expressions[i].type = "literal" THEN expressions[i].value
             ELSE tokens[i].text])
withoutFinalNewline(text) ==
  IF text # <<>> /\ text[Len(text)] = Newline
  THEN SubSeq(text, 1, Len(text) - 1) ELSE text

\* C23: convertMultilineString keeps the content verbatim and removes only
\* the one final newline: the literal values, concatenated, are the token
\* texts, concatenated, less a single trailing newline, and no other
\* character is removed.
C23_OnlyFinalNewlineRemoved ==
  wasCalled("convertMultilineString") =>
    rendered(converted.args, converted.result.returned.expressions)
      = withoutFinalNewline(tokenTexts(converted.args))

\* the same, when the last token is a content token that ends a line
C23_WhenLastTokenEndsALine ==
  (/\ wasCalled("convertMultilineString")
   /\ converted.args # <<>>
   /\ LET t == converted.args[Len(converted.args)]
      IN t.type = "content" /\ t.text # <<>> /\ t.text[Len(t.text)] = Newline)
    => C23_OnlyFinalNewlineRemoved

\* ------------------------------------------------------------------------
\* adapter-utils utils.ts: the transform walker
\* ------------------------------------------------------------------------
\* items of one list value
MaxListLen == 2

\* values: a primitive, a reference expression with the value it resolves
\* to, an array, a plain object (keys to values)
Prim(v) == [prim |-> v]
ReferenceExpression(name, resValue) == [ref |-> name, value |-> resValue]
List(items) == [list |-> items]
Obj(entries) == [obj |-> entries]
isReferenceExpression(value) == "ref" \in DOMAIN value
isArray(value) == "list" \in DOMAIN value
isPlainObject(value) == "obj" \in DOMAIN value
isUndefined(value) == value = Undefined

\* types and fields
PrimitiveTypeOf(name) == [kind |-> "primitive", name |-> name]
ListType(innerType) == [kind |-> "list", innerType |-> innerType]
ObjectType(name, fields) == [kind |-> "object", name |-> name, fields |-> fields]
TypeMap(types) == [kind |-> "typeMap", types |-> types]
isListType(type) == type.kind = "list"
isObjectType(type) == type.kind = "object"
Field(parentID, name, type) == [parentID |-> parentID, name |-> name, type |-> type]

\* ElemID: the name parts; createNestedID under the optional chaining `?.`
ElemID(parts) == [parts |-> parts]
createNestedID(id, name) ==
  IF id = Undefined THEN Undefined ELSE ElemID(Append(id.parts, name))

\* the keys of objects, in the order the objects list them
KeySeq == <<"_parent", "l", "lo", "o", "p", "x">>
keysOf(entries) == SeqFilter(KeySeq, DOMAIN entries)

\* _.omitBy(values, _.isUndefined), and for `undefined` the empty object
omitUndefined(result) ==
  IF result = Undefined THEN <<>>
  ELSE LET kept == {k \in DOMAIN result : ~isUndefined(result[k])}
       IN [k \in kept |-> result[k]]

\* the callbacks given to the walker
TransformFuncs == {"keep", "drop all", "drop primitives", "resolve references"}
transformFunc(f, args) ==
  CASE f = "keep" -> args.value
    [] f = "drop all" -> Undefined
    [] f = "drop primitives" ->
         IF "prim" \in DOMAIN args.value THEN Undefined ELSE args.value
    [] f = "resolve references" ->
         IF isReferenceExpression(args.value) THEN args.value.value ELSE args.value

\* what a part of the walk returned, and the calls of the callback it made
Walked(result, made) == [result |-> result, calls |-> made]
Calling(f, value, path, field) ==
  LET args == [value |-> value, path |-> path, field |-> field]
  IN Walked(transformFunc(f, args), <<args>>)

\* `index ? ... : ...` of a zero-based index that may be undefined
NoIndex == -1
truthy(index) == index # NoIndex /\ index # 0

\* lines 76-78 with the resolved value in place of the reference
onReferenceResolved(f, value, keyPathID, field) ==
  Calling(f, value.value, keyPathID, field)

\* lines 76-78: a reference expression goes to the callback as it is
onReference(f, value, keyPathID, field) ==
  Calling(f, value, keyPathID, field)

\* line 103 without the test for an empty array
listOrEmpty(transformed) == List(transformed)

\* lines 103, 113: an array left without items is undefined
listOrUndefined(transformed) ==
  IF Len(transformed) = 0 THEN Undefined ELSE List(transformed)

isDefined(value) == ~isUndefined(value)

RECURSIVE transformValue(_, _, _, _, _)
RECURSIVE transformValues(_, _, _, _, _)
RECURSIVE transformItems(_, _, _, _, _, _, _)
RECURSIVE transformEntries(_, _, _, _, _, _)

\* lines 83-93
transformListInnerValue(item, index, keyPathID, field, f, strict) ==
  transformValue(item,
                 IF truthy(index) THEN createNestedID(keyPathID, ToString(index))
                 ELSE keyPathID,
                 Field(field.parentID, field.name, field.type.innerType),
                 f, strict)

\* value.map(...) from item i on (one-based): lines 101 and 111
transformItems(items, i, keyPathID, field, f, strict, ofListType) ==
  IF i > Len(items) THEN Walked(<<>>, <<>>)
  ELSE LET one == IF ofListType
                  THEN transformListInnerValue(items[i], i - 1, keyPathID, field,
                                               f, strict)
                  ELSE transformValue(items[i],
                                      createNestedID(keyPathID, ToString(i - 1)),
                                      field, f, strict)
           rest == transformItems(items, i + 1, keyPathID, field, f, strict,
                                  ofListType)
       IN Walked(<<one.result>> \o rest.result, one.calls \o rest.calls)

\* lines 71-130
transformValue(value, keyPathID, field, f, strict) ==
  IF field = Undefined
  THEN IF strict THEN Walked(Undefined, <<>>)
       ELSE Calling(f, value, keyPathID, Undefined)
  ELSE IF isReferenceExpression(value) THEN onReference(f, value, keyPathID, field)
  ELSE IF isListType(field.type)
  THEN IF ~isArray(value)
       THEN transformListInnerValue(value, NoIndex, keyPathID, field, f, strict)
       ELSE LET mapped == transformItems(value.list, 1, keyPathID, field, f,
                                         strict, TRUE)
            IN Walked(listOrUndefined(SelectSeq(mapped.result, isDefined)),
                      mapped.calls)
  ELSE IF isArray(value)
  THEN LET mapped == transformItems(value.list, 1, keyPathID, field, f, strict,
                                    FALSE)
       IN Walked(listOrUndefined(SelectSeq(mapped.result, isDefined)),
                 mapped.calls)
  ELSE IF isObjectType(field.type)
  THEN LET inner == transformValues(value, field.type, f, strict, keyPathID)
           transformed == omitUndefined(IF inner.result = Undefined THEN Undefined
                                        ELSE inner.result.obj)
       IN Walked(IF DOMAIN transformed = {} THEN Undefined ELSE Obj(transformed),
                 inner.calls)
  ELSE Calling(f, value, keyPathID, field)

\* _(values).mapValues(...) over the keys from the i-th on: line 137
transformEntries(entries, keys, fieldMap, f, strict, pathID) ==
  IF keys = <<>> THEN Walked(<<>>, <<>>)
  ELSE LET key == Head(keys)
           one == transformValue(entries[key], createNestedID(pathID, key),
                                 IF key \in DOMAIN fieldMap THEN fieldMap[key]
                                 ELSE Undefined,
                                 f, strict)
           rest == transformEntries(entries, Tail(keys), fieldMap, f, strict, pathID)
       IN Walked((key :> one.result) @@ rest.result, one.calls \o rest.calls)

\* lines 56-141
transformValues(values, type, f, strict, pathID) ==
  LET fieldMap == IF isObjectType(type) THEN type.fields
                  ELSE [name \in DOMAIN type.types |->
                          Field(ElemID(<<"">>), name, type.types[name])]
      \* the values handed to the walker here are plain objects
      entries == IF isPlainObject(values) THEN values.obj ELSE <<>>
      mapped == transformEntries(entries, keysOf(entries), fieldMap, f, strict,
                                 pathID)
      result == omitUndefined(mapped.result)
  IN Walked(IF DOMAIN result = {} THEN Undefined ELSE Obj(result), mapped.calls)


\* lines 143-193, for an instance element: the annotations, then the values
transformElement(element, f, strict) ==
  LET annotations == transformValues(element.annotations, element.annotationTypes,
                                     f, strict, element.elemID)
      value == transformValues(element.value, element.type, f, strict,
                               element.elemID)
      orEmpty(result) == IF result = Undefined THEN Obj(<<>>) ELSE result
  IN Walked([value |-> orEmpty(value.result),
             annotations |-> orEmpty(annotations.result)],
            annotations.calls \o value.calls)

\* the types of the values walked: a type with a list of strings, a list of
\* objects and a nested object, which has a string and a list of strings
StringType == PrimitiveTypeOf("string")
ItemType ==
  ObjectType("Item", [k \in {"p"} |-> Field(ElemID(<<"Item">>), "p", StringType)])
InnerType ==
  ObjectType("Inner",
    [k \in {"l", "p"} |->
       Field(ElemID(<<"Inner">>), k,
             IF k = "l" THEN ListType(StringType) ELSE StringType)])
WalkedType ==
  ObjectType("T",
    [k \in {"l", "lo", "o"} |->
       Field(ElemID(<<"T">>), k,
             CASE k = "l" -> ListType(StringType)
               [] k = "lo" -> ListType(ItemType)
               [] k = "o" -> InnerType)])
InstanceAnnotationTypes == TypeMap([k \in {"_parent"} |-> ListType(StringType)])

\* the values walked.  A reference is named after the place it is at, and
\* resolves to a value of the type of that place.
Absent == [absent |-> TRUE]
ResolvedValue == Prim("resolved")
ReferenceAt(place) == ReferenceExpression(place, ResolvedValue)
Leaves(place) == {Prim("s"), ReferenceAt(place)}
ListsAt(place, n) ==
  UNION {{List([i \in 1..k |-> IF i \in R THEN ReferenceAt(Append(place, ToString(i - 1)))
                               ELSE Prim("s")]) : R \in SUBSET (1..k)} : k \in 0..n}
ObjOf(choice) ==
  Obj([k \in {k \in DOMAIN choice : choice[k] # Absent} |-> choice[k]])

lValues ==
  {Absent, Prim("s"), ReferenceExpression(<<"l">>, List(<<ResolvedValue>>))}
    \cup ListsAt(<<"l">>, MaxListLen)
loValues ==
  {Absent,
   List(<<Obj([k \in {"p"} |-> Prim("s")])>>),
   List(<<Obj([k \in {"p"} |-> Prim("s")]),
          Obj([k \in {"p"} |-> ReferenceAt(<<"lo", "1", "p">>)])>>)}
oValues ==
  {Absent, ReferenceExpression(<<"o">>, Obj([k \in {"p"} |-> ResolvedValue]))}
    \cup {ObjOf([l |-> l, p |-> p, x |-> x]) :
            l \in {Absent} \cup ListsAt(<<"o", "l">>, 1),
            p \in {Absent} \cup Leaves(<<"o", "p">>),
            x \in {Absent, Prim("s")}}
xValues == {Absent} \cup Leaves(<<"x">>)

WalkedValues ==
  {ObjOf([l |-> l, lo |-> lo, o |-> o, x |-> x]) :
     l \in lValues, lo \in loValues, o \in oValues, x \in xValues}
ElementValues ==
  {ObjOf([l |-> l, o |-> o, x |-> x]) :
     l \in lValues, o \in {Absent, Obj([k \in {"p"} |-> ReferenceAt(<<"o", "p">>)])},
     x \in xValues}
ElementAnnotations ==
  {Obj(<<>>), Obj([k \in {"_parent"} |-> List(<<ReferenceAt(<<"_parent", "0">>)>>)])}
PathIDs == {Undefined, ElemID(<<"inst">>)}

Walk(call, values, annotations, f, strict, pathID) ==
  [call |-> call, values |-> values, annotations |-> annotations, f |-> f,
   strict |-> strict, pathID |-> pathID, done |-> FALSE,
   result |-> Undefined, calls |-> <<>>]

\* the transformValues call of the walk
TransformValues ==
  /\ walked.call = "transformValues"
  /\ ~walked.done
  /\ LET w == transformValues(walked.values, WalkedType, walked.f, walked.strict,
                              walked.pathID)
     IN walked' = [walked EXCEPT !.done = TRUE, !.result = w.result,
                                 !.calls = w.calls]

\* the transformElement call of the walk, on an instance of the type
TransformElement ==
  /\ walked.call = "transformElement"
  /\ ~walked.done
  /\ LET w == transformElement([elemID |-> walked.pathID, type |-> WalkedType,
                                value |-> walked.values,
                                annotations |-> walked.annotations,
                                annotationTypes |-> InstanceAnnotationTypes],
                               walked.f, walked.strict)
     IN walked' = [walked EXCEPT !.done = TRUE, !.result = Obj(w.result),
                                 !.calls = w.calls]

notWalk == <<wsVars, edVars, histVars, lcVars, rcVars, clVars, valVars, dgVars,
             psVars, cliVars>>

WalkInit ==
  /\ NoWorkspaceFiles /\ LifecycleLoaded /\ EditorConstructed /\ RecencyUnused
  /\ NotCloned /\ NothingRemoved /\ ListenerCreated
  /\ ConvertersLoaded /\ NoCommandRun
  /\ walked \in
       {Walk("transformValues", values, Obj(<<>>), f, strict, pathID) :
          values \in WalkedValues, f \in TransformFuncs, strict \in BOOLEAN,
          pathID \in PathIDs}
       \cup
       {Walk("transformElement", values, annotations, f, strict, ElemID(<<"inst">>)) :
          values \in ElementValues, annotations \in ElementAnnotations,
          f \in TransformFuncs, strict \in BOOLEAN}

WalkNext ==
  \/ TransformValues /\ UNCHANGED notWalk
  \/ TransformElement /\ UNCHANGED notWalk

SpecWalk == WalkInit /\ [][WalkNext]_vars

\* ------------------------------------------------------------------------
\* Properties of the transform walker
\* ------------------------------------------------------------------------
\* the value tree given to the walk
walkedInput ==
  IF walked.call = "transformElement"
  THEN Obj([value |-> walked.values, annotations |-> walked.annotations])
  ELSE walked.values

\* the reference expressions in a value tree, those inside the value of
\* another reference left out
RECURSIVE refsIn(_)
refsIn(v) ==
  IF isReferenceExpression(v) THEN {v}
  ELSE IF isArray(v) THEN UNION {refsIn(v.list[i]) : i \in 1..Len(v.list)}
  ELSE IF isPlainObject(v) THEN UNION {refsIn(v.obj[k]) : k \in DOMAIN v.obj}
  ELSE {}

\* a value and all the values inside it
RECURSIVE subvalues(_)
subvalues(v) ==
  {v} \cup
    (IF isReferenceExpression(v) THEN subvalues(v.value)
     ELSE IF isArray(v) THEN UNION {subvalues(v.list[i]) : i \in 1..Len(v.list)}
     ELSE IF isPlainObject(v) THEN UNION {subvalues(v.obj[k]) : k \in DOMAIN v.obj}
     ELSE {})

\* the reference expressions at the places of a value of the type given that
\* have a field; not strict, also those that are the value of a key without
\* a field
RECURSIVE refsAtFields(_, _, _)
refsAtFields(v, type, strict) ==
  IF isReferenceExpression(v) THEN {v}
  ELSE IF isArray(v)
  THEN UNION {refsAtFields(v.list[i],
                           IF isListType(type) THEN type.innerType ELSE type,
                           strict) : i \in 1..Len(v.list)}
  ELSE IF isPlainObject(v) /\ type.kind \in {"object", "typeMap"}
  THEN LET typeOf(k) == IF isObjectType(type) THEN type.fields[k].type
                        ELSE type.types[k]
           known == IF isObjectType(type) THEN DOMAIN type.fields
                    ELSE DOMAIN type.types
       IN UNION {IF k \in known THEN refsAtFields(v.obj[k], typeOf(k), strict)
                 ELSE IF ~strict /\ isReferenceExpression(v.obj[k]) THEN {v.obj[k]}
                 ELSE {} : k \in DOMAIN v.obj}
  ELSE {}

refsReached ==
  IF walked.call = "transformElement"
  THEN refsAtFields(walked.values, WalkedType, walked.strict)
         \cup refsAtFields(walked.annotations, InstanceAnnotationTypes, walked.strict)
  ELSE refsAtFields(walked.values, WalkedType, walked.strict)

callsWith(r) == {i \in 1..Len(walked.calls) : walked.calls[i].value = r}

\* the reference went to the callback once, as a whole, and the result has it
\* if and only if the callback returned it
handedWhole(r) ==
  /\ Cardinality(callsWith(r)) = 1
  /\ \A i \in callsWith(r) :
       (r \in refsIn(walked.result))
         <=> (transformFunc(walked.f, walked.calls[i]) = r)

neverDescended ==
  \A r \in refsIn(walkedInput) :
    \A i \in 1..Len(walked.calls) :
      walked.calls[i].value \notin subvalues(r.value)

walkedList == walked.values.obj["l"]
listPath == createNestedID(walked.pathID, "l")
itemCalls(index) ==
  {c \in 1..Len(walked.calls) :
     walked.calls[c].path = createNestedID(listPath, ToString(index))}
listWalked ==
  /\ walked.done
  /\ walked.call = "transformValues"
  /\ walked.pathID # Undefined
  /\ "l" \in DOMAIN walked.values.obj
  /\ isArray(walkedList)

itemHanded(i) ==
  /\ Cardinality(itemCalls(i - 1)) = 1
  /\ \A c \in itemCalls(i - 1) :
       /\ walked.calls[c].value = walkedList.list[i]
       /\ walked.calls[c].field.type = StringType
       /\ walked.calls[c].field.name = "l"

\* C25: for a field of list type the callback is called once per item, with
\* a field of the inner type and with the path of the list extended by the
\* index of the item, for every index from 0 on; no item gets the path of the
\* list itself.
C25_ItemPaths ==
  listWalked =>
    /\ \A i \in 1..Len(walkedList.list) : itemHanded(i)
    /\ \A c \in 1..Len(walked.calls) : walked.calls[c].path # listPath

\* the same for the items after the first one
C25_AfterTheFirstItem ==
  listWalked => \A i \in 2..Len(walkedList.list) : itemHanded(i)

\* an empty array or an empty plain object somewhere in the value, the
\* values of references left out
RECURSIVE hasEmptyContainer(_)
hasEmptyContainer(v) ==
  IF isArray(v)
  THEN v.list = <<>> \/ \E i \in 1..Len(v.list) : hasEmptyContainer(v.list[i])
  ELSE IF isPlainObject(v)
  THEN DOMAIN v.obj = {} \/ \E k \in DOMAIN v.obj : hasEmptyContainer(v.obj[k])
  ELSE FALSE

allDropped(items) ==
  \A i \in 1..Len(items) :
    transformFunc(walked.f, [value |-> items[i]]) = Undefined

\* C26: a list or a nested object for whose items or entries the callback
\* returns undefined is left out of the result, no empty list or object is
\* left at any depth, and transformValues returns undefined when nothing is
\* left.
C26_EmptyContainersDropped ==
  (walked.done /\ walked.call = "transformValues") =>
    /\ ~hasEmptyContainer(walked.result)
    /\ ("l" \in DOMAIN walked.values.obj /\ isArray(walkedList)
          /\ allDropped(walkedList.list))
         => (walked.result = Undefined \/ "l" \notin DOMAIN walked.result.obj)
    /\ walked.f = "drop all" => walked.result = Undefined

\* the callback drops the two items of the list and the entries of the
\* nested object and of its list; only the reference under the key without a
\* field is left
C26_Witness ==
  /\ walked.done
  /\ walked.call = "transformValues"
  /\ walked.f = "drop primitives"
  /\ ~walked.strict
  /\ walked.values.obj = [l |-> List(<<Prim("s"), Prim("s")>>),
                          o |-> Obj([l |-> List(<<Prim("s")>>), p |-> Prim("s")]),
                          x |-> ReferenceAt(<<"x">>)]
  /\ walked.result = Obj([k \in {"x"} |-> ReferenceAt(<<"x">>)])

\* ------------------------------------------------------------------------
\* cli workspace.ts: validateWorkspace, loadWorkspace, updateWorkspace
\* ------------------------------------------------------------------------
MaxErrors == 2
MaxChanges == 2
MaxCommands == 2
MaxRecencies == 1

notCli == <<wsVars, edVars, histVars, lcVars, rcVars, clVars, valVars, dgVars,
            psVars, tfVars>>

SaltoError(severity) == [severity |-> severity]
isError(e) == e.severity = "Error"

\* what ws.errors() may hold: errors and warnings in any order
ErrorLists ==
  UNION {[1..n -> {SaltoError("Error"), SaltoError("Warning")}] : n \in 0..MaxErrors}

\* the recency of the state of each service that is asked for
RecencyLists ==
  UNION {[1..n -> {"Valid", "Old", "Nonexistent"}] : n \in 0..MaxRecencies}

validateWorkspace(errors) ==
  IF errors = <<>> THEN [status |-> "Valid", errors |-> <<>>]
  ELSE IF \E i \in 1..Len(errors) : isError(errors[i])
  THEN [status |-> "Error", errors |-> SelectSeq(errors, isError)]
  ELSE [status |-> "Warning", errors |-> errors]

Prompt(name, answer) == [prompt |-> name, answer |-> answer]

\* line 718: the stale state prompt is offered
offersToCancel(recommendStateRecency, force, invalidRecencies, status) ==
  recommendStateRecency /\ ~force /\ invalidRecencies # <<>> /\ status # "Error"

\* the warnings prompt is shown whatever force is
asksToContinueForced(status, force) == status = "Warning"

\* line 727
asksToContinue(status, force) == status = "Warning" /\ ~force

\* lines 725-735, up to the prompt or the return
handleWarningsAndErrors(status, force) ==
  IF asksToContinue(status, force)
  THEN /\ cliPc' = "shouldContinueInCaseOfWarnings"
       /\ UNCHANGED returned
  ELSE /\ cliPc' = "returned"
       /\ returned' = [errored |-> status = "Error"]

LoadWorkspaceOptions ==
  [force : BOOLEAN, printStateRecency : BOOLEAN, recommendStateRecency : BOOLEAN]

LoadWorkspace(options, stateRecencies) ==
  /\ cliPc = "idle" /\ commands < MaxCommands
  /\ commands' = commands + 1
  /\ LET status == validateWorkspace(wsErrorList).status
         invalidRecencies == SelectSeq(stateRecencies, LAMBDA r : r # "Valid")
     IN /\ command' = [call |-> "loadWorkspace", options |-> options,
                       invalidRecencies |-> invalidRecencies, status |-> status]
        /\ IF offersToCancel(options.recommendStateRecency, options.force,
                             invalidRecencies, status)
           THEN /\ cliPc' = "shouldCancelInCaseOfNoRecentState"
                /\ UNCHANGED returned
           ELSE handleWarningsAndErrors(status, options.force)
  /\ UNCHANGED <<wsErrorList, prompts, wsCalls>>

\* lines 719-722: the user answers the stale state prompt
ShouldCancelAnswered(shouldCancel) ==
  /\ cliPc = "shouldCancelInCaseOfNoRecentState"
  /\ prompts' = Append(prompts, Prompt(cliPc, shouldCancel))
  /\ IF shouldCancel
     THEN cliPc' = "returned" /\ returned' = [errored |-> TRUE]
     ELSE handleWarningsAndErrors(command.status, command.options.force)
  /\ UNCHANGED <<command, wsErrorList, wsCalls, commands>>

\* lines 728-729: the user answers the warnings prompt
ShouldContinueAnswered(shouldContinue) ==
  /\ cliPc = "shouldContinueInCaseOfWarnings"
  /\ prompts' = Append(prompts, Prompt(cliPc, shouldContinue))
  /\ cliPc' = "returned"
  /\ returned' = [errored |-> ~shouldContinue]
  /\ UNCHANGED <<command, wsErrorList, wsCalls, commands>>

\* flush is called whatever the user answered
flushesAfterErrorAlways(shouldAbort) == 1

\* lines 762-764
flushesAfterError(shouldAbort) == IF ~shouldAbort THEN 1 ELSE 0

\* lines 740-772, up to the prompt or the return; errorsAfter is what
\* ws.errors() holds once the changes are written to the NaCl files
UpdateWorkspace(changes, isolated, errorsAfter) ==
  /\ cliPc = "idle" /\ commands < MaxCommands
  /\ commands' = commands + 1
  /\ IF changes > 0
     THEN LET status == validateWorkspace(errorsAfter).status
          IN /\ wsErrorList' = errorsAfter
             /\ command' = [call |-> "updateWorkspace", changes |-> changes,
                            isolated |-> isolated, status |-> status]
             /\ IF status = "Error"
                THEN /\ cliPc' = "shouldAbortWorkspaceInCaseOfValidationError"
                     /\ wsCalls' = [updateNaclFiles |-> 1, flush |-> 0]
                     /\ UNCHANGED returned
                ELSE /\ cliPc' = "returned"
                     /\ wsCalls' = [updateNaclFiles |-> 1, flush |-> 1]
                     /\ returned' = [value |-> TRUE]
     ELSE /\ command' = [call |-> "updateWorkspace", changes |-> changes,
                         isolated |-> isolated,
                         status |-> validateWorkspace(wsErrorList).status]
          /\ cliPc' = "returned"
          /\ wsCalls' = [updateNaclFiles |-> 0, flush |-> 1]
          /\ returned' = [value |-> TRUE]
          /\ UNCHANGED wsErrorList
  /\ UNCHANGED prompts

\* lines 761-766: the user answers the abort prompt
ShouldAbortAnswered(shouldAbort) ==
  /\ cliPc = "shouldAbortWorkspaceInCaseOfValidationError"
  /\ prompts' = Append(prompts, Prompt(cliPc, shouldAbort))
  /\ wsCalls' = [wsCalls EXCEPT !.flush = @ + flushesAfterError(shouldAbort)]
  /\ cliPc' = "returned"
  /\ returned' = [value |-> FALSE]
  /\ UNCHANGED <<command, wsErrorList, commands>>

\* the command is over, the next one starts from the same workspace
CommandReturned ==
  /\ cliPc = "returned"
  /\ cliPc' = "idle"
  /\ command' = Undefined
  /\ prompts' = <<>>
  /\ wsCalls' = [updateNaclFiles |-> 0, flush |-> 0]
  /\ returned' = Undefined
  /\ UNCHANGED <<wsErrorList, commands>>

CliInit ==
  /\ NoWorkspaceFiles /\ LifecycleLoaded /\ EditorConstructed /\ RecencyUnused
  /\ NotCloned /\ NothingRemoved /\ ListenerCreated
  /\ ConvertersLoaded /\ NothingWalked
  /\ command = Undefined
  /\ cliPc = "idle"
  /\ wsErrorList \in ErrorLists
  /\ prompts = <<>>
  /\ wsCalls = [updateNaclFiles |-> 0, flush |-> 0]
  /\ returned = Undefined
  /\ commands = 0

CliNext ==
  \/ \E options \in LoadWorkspaceOptions, stateRecencies \in RecencyLists :
       LoadWorkspace(options, stateRecencies) /\ UNCHANGED notCli
  \/ \E shouldCancel \in BOOLEAN : ShouldCancelAnswered(shouldCancel) /\ UNCHANGED notCli
  \/ \E shouldContinue \in BOOLEAN :
       ShouldContinueAnswered(shouldContinue) /\ UNCHANGED notCli
  \/ \E changes \in 0..MaxChanges, isolated \in BOOLEAN, errorsAfter \in ErrorLists :
       UpdateWorkspace(changes, isolated, errorsAfter) /\ UNCHANGED notCli
  \/ \E shouldAbort \in BOOLEAN : ShouldAbortAnswered(shouldAbort) /\ UNCHANGED notCli
  \/ CommandReturned /\ UNCHANGED notCli

SpecCli == CliInit /\ [][CliNext]_vars

\* ------------------------------------------------------------------------
\* Properties of the commands
\* ------------------------------------------------------------------------
hasErrorSeverity == \E i \in 1..Len(wsErrorList) : wsErrorList[i].severity = "Error"
warningsOnly == wsErrorList # <<>> /\ ~hasErrorSeverity

answered(name, answer) ==
  \E i \in 1..Len(prompts) : prompts[i] = Prompt(name, answer)

loading == command # Undefined /\ command.call = "loadWorkspace"
loaded == loading /\ cliPc = "returned"

\* C38: loadWorkspace returns errored = true whenever the workspace has an
\* error of severity Error, whatever force is. With force no prompt is shown
\* and a workspace with warnings only is returned with errored = false.
\* Without force a workspace with warnings only is returned with errored =
\* true exactly when the user declined to continue or cancelled at the stale
\* state prompt.
C38_LoadWorkspaceErrored ==
  /\ (loading /\ command.options.force) =>
       /\ prompts = <<>>
       /\ cliPc \in {"idle", "returned"}
  /\ loaded =>
       /\ hasErrorSeverity => returned.errored
       /\ (command.options.force /\ warningsOnly) => ~returned.errored
       /\ (~command.options.force /\ warningsOnly) =>
            (returned.errored <=>
               \/ answered("shouldContinueInCaseOfWarnings", FALSE)
               \/ answered("shouldCancelInCaseOfNoRecentState", TRUE))

\* without force and with warnings only, the user went on at the stale state
\* prompt and declined at the warnings prompt
C38_Witness ==
  /\ loaded
  /\ ~command.options.force /\ warningsOnly
  /\ answered("shouldCancelInCaseOfNoRecentState", FALSE)
  /\ answered("shouldContinueInCaseOfWarnings", FALSE)
  /\ returned.errored

updating == command # Undefined /\ command.call = "updateWorkspace"
updated == updating /\ cliPc = "returned"

\* C39: updateWorkspace returns false iff the change list is non-empty and
\* the workspace has an error of severity Error after updateNaclFiles. The
\* workspace is flushed exactly once on every path but the one where that
\* happens and the user aborts, on which flush is never called. With an empty
\* change list updateNaclFiles is not called.
C39_UpdateWorkspaceFlushes ==
  /\ updating => wsCalls.flush <= 1
  /\ updated =>
       /\ returned.value = FALSE <=> (command.changes > 0 /\ hasErrorSeverity)
       /\ wsCalls.flush =
            IF command.changes > 0 /\ hasErrorSeverity
               /\ answered("shouldAbortWorkspaceInCaseOfValidationError", TRUE)
            THEN 0 ELSE 1
       /\ command.changes = 0 => wsCalls.updateNaclFiles = 0
       /\ command.changes > 0 => wsCalls.updateNaclFiles = 1

\* the changes left an error and the user chose not to abort
C39_Witness ==
  /\ updated
  /\ command.changes > 0 /\ hasErrorSeverity
  /\ answered("shouldAbortWorkspaceInCaseOfValidationError", FALSE)
  /\ wsCalls.flush = 1
  /\ returned.value = FALSE
====
